---------------------------- MODULE Spec2Model ----------------------------
(***************************************************************************)
(* NVS partition codec of esp-webflash-toolkit (nvs-generator):            *)
(* NVSGenerator.generate / createEntry / writeEntry / finalizePage /       *)
(* calculateCRC32 and NVSGenerator.prototype.parse.                        *)
(*                                                                         *)
(* Representation.                                                         *)
(*  - A Uint8Array is a sequence of bytes 0..255; the byte at JavaScript   *)
(*    offset o is element o + 1.                                           *)
(*  - TLC integers are 32-bit signed, so an unsigned 32-bit word (a CRC,   *)
(*    a page state, a U32 value) and every JavaScript integer value is a   *)
(*    record [hi, lo] standing for hi * 65536 + lo with lo in 0..65535.    *)
(*  - A JavaScript string is a sequence of code points below 65536.        *)
(*  - An object used as an ordered mapping is a sequence of entries in     *)
(*    insertion order with pairwise distinct names.                        *)
(*  - A thrown exception is the field error of the returned record.        *)
(*  - Loops of the source are left-to-right folds; they are evaluated by   *)
(*    splitting the index range in halves, which keeps the order of the    *)
(*    iterations and bounds the evaluation depth.                          *)
(***************************************************************************)
EXTENDS Integers, Sequences, FiniteSets, TLC

VARIABLES
    data,           \* generate's argument: namespace -> key -> value
    partitionSize,  \* generate's argument: size of the partition in bytes
    pc,             \* "start", "generated", "parsed"
    result,         \* what generate returned or threw
    parsed          \* what parse returned for generate's image

VARIABLES
    crcData,        \* calculateCRC32's argument: a sequence of bytes
    crcResult       \* <<>> before the call, <<the value returned>> after it

VARIABLES
    transport,      \* DeviceConnection.transport: <<>> (null) or <<c>>, the
                    \* Transport created by connect() call c
    espStub,        \* DeviceConnection.espStub: <<>> (null) or <<c>>, the
                    \* ESPLoader created by connect() call c
    isConnected,    \* DeviceConnection.isConnected
    calls,          \* per connect() call: where it stands, its options.port,
                    \* the error it caught, its handleConnectionError
                    \* invocations, the fields as it left them on rejection
    connectedBy,    \* the connect() call that last set isConnected (0: none)
    chipOverride,   \* localStorage 'chip-overrides' holds the detected chip
    extDisconnect,  \* a disconnect() call from outside connect(): its position
    btnConnect,     \* FlasherApp.btnConnect: disabled, style.display
    btnFlash,       \* FlasherApp.btnFlash: disabled, style.display
    btnWriteConfig  \* FlasherApp.btnWriteConfig: disabled, style.display

VARIABLES
    selectedProject,    \* FlasherApp.selectedProject: configSections present,
                        \* nvsPartition (<<>> or <<[namespace, size, offset]>>),
                        \* the bytes served at firmwareUrl
    config,             \* ConfigManager.getConfig(): the fields with an nvsKey
    firmwareSource,     \* the checked firmware-source radio: release, custom
    customFile,         \* the files of dev-custom-file: <<>> or <<bytes>>
    generatorLoaded,    \* the global NVSGenerator is defined
    flashCall,          \* the handleFlash / FirmwareFlasher.flash call
    configCall,         \* the handleWriteConfig call
    writeFlashOps,      \* the espStub.writeFlash calls: caller, fileArray, status
    clicks              \* clicks on Flash Firmware and Write Config so far

nvsVars == <<data, partitionSize, pc, result, parsed>>
crcVars == <<crcData, crcResult>>
flashVars == <<selectedProject, config, firmwareSource, customFile, generatorLoaded,
               flashCall, configCall, writeFlashOps, clicks>>
connVars == <<transport, espStub, isConnected, calls, connectedBy, chipOverride,
              extDisconnect, btnConnect>>
buttonVars == <<btnFlash, btnWriteConfig>>

vars == <<data, partitionSize, pc, result, parsed, crcData, crcResult,
          transport, espStub, isConnected, calls, connectedBy, chipOverride,
          extDisconnect, btnConnect, btnFlash, btnWriteConfig,
          selectedProject, config, firmwareSource, customFile, generatorLoaded,
          flashCall, configCall, writeFlashOps, clicks>>

\* calculateCRC32 has not been called on its own.
CrcIdle == crcData = <<>> /\ crcResult = <<>>

\* No flash and no configuration write has been asked for.
NoFlashCall == [pc |-> "idle", firmware |-> <<>>, fileArray |-> <<>>, nvs |-> "none",
                warnings |-> 0, writes |-> 0, result |-> "pending", error |-> "none"]
NoConfigCall == [pc |-> "idle", error |-> "none"]

FlashIdle ==
    /\ selectedProject = [configSections |-> FALSE, nvsPartition |-> <<>>, release |-> <<>>]
    /\ config = <<>>
    /\ firmwareSource = "release"
    /\ customFile = <<>>
    /\ generatorLoaded = TRUE
    /\ flashCall = NoFlashCall
    /\ configCall = NoConfigCall
    /\ writeFlashOps = <<>>
    /\ clicks = 0

\* No page is loaded: there is no DeviceConnection and no FlasherApp.
AppIdle ==
    /\ transport = <<>>
    /\ espStub = <<>>
    /\ isConnected = FALSE
    /\ calls = <<>>
    /\ connectedBy = 0
    /\ chipOverride = FALSE
    /\ extDisconnect = "idle"
    /\ btnConnect = [disabled |-> TRUE, display |-> "block"]
    /\ btnFlash = [disabled |-> TRUE, display |-> "none"]
    /\ btnWriteConfig = [disabled |-> TRUE, display |-> "block"]
    /\ FlashIdle

-----------------------------------------------------------------------------
(* Constants of the NVSGenerator constructor.                              *)

PAGE_SIZE == 4096
ENTRY_SIZE == 32
ENTRIES_PER_PAGE == 126

TYPE_U8 == 1
TYPE_I8 == 17
TYPE_U16 == 2
TYPE_I16 == 18
TYPE_U32 == 4
TYPE_I32 == 20
TYPE_STR == 33
TYPE_BLOB == 65

U32(h, l) == [hi |-> h, lo |-> l]

PAGE_STATE_ACTIVE == U32(65535, 65534)
PAGE_STATE_FULL == U32(65535, 65532)
PAGE_STATE_EMPTY == U32(65535, 65535)

DEFAULT_PARTITION_SIZE == 24576

-----------------------------------------------------------------------------
(* Integers and bytes.                                                     *)

Min(a, b) == IF a < b THEN a ELSE b
Max(a, b) == IF a > b THEN a ELSE b

\* Math.ceil(a / b) for a >= 0, b > 0
CeilDiv(a, b) == (a + b - 1) \div b

\* A JavaScript integer below 2^31 in magnitude as a [hi, lo] record.
JsInt(v) == U32(v \div 65536, v % 65536)

\* ToUint32 of an integer: the value modulo 2^32.
ToUint32(v) == U32(v.hi % 65536, v.lo)

\* The little-endian bytes DataView.setUint16 / setUint32 store.
LE16(n) == <<n % 256, (n \div 256) % 256>>
LE32(w) == LE16(w.lo) \o LE16(w.hi % 65536)

\* DataView.getUint16 / getUint32 (little-endian) at offset o.
GetUint8(b, o) == b[o + 1]
GetUint16(b, o) == b[o + 1] + 256 * b[o + 2]
GetUint32(b, o) == U32(GetUint16(b, o + 2), GetUint16(b, o))

\* Uint8Array.prototype.slice(from, to): clamped to the array.
Slice(b, from, to) == SubSeq(b, Min(from, Len(b)) + 1, Min(to, Len(b)))

\* binary[off + i] = s[i] for every i: stores past the end are ignored.
StoreBytes(b, off, s) ==
    LET n == Min(Len(s), Len(b) - off)
    IN  IF n <= 0 THEN b
        ELSE SubSeq(b, 1, off) \o SubSeq(s, 1, n) \o SubSeq(b, off + n + 1, Len(b))

\* TypedArray.prototype.set(s, off) and DataView.setUintN(off, ..) throw a
\* RangeError when the bytes do not fit; InRange is their guard.
InRange(b, off, n) == off + n <= Len(b)

\* A fresh Uint8Array(n) (zero-filled) after set(s, 0).
ZeroPadded(s, n) == s \o [i \in 1..(n - Len(s)) |-> 0]

\* Array.prototype.indexOf(v): -1 when absent.
IndexOf(b, v) ==
    LET hits == {i \in 1..Len(b) : b[i] = v}
    IN  IF hits = {} THEN -1
        ELSE (CHOOSE i \in hits : \A j \in hits : i <= j) - 1

-----------------------------------------------------------------------------
(* Bitwise arithmetic of calculateCRC32 on [hi, lo] words.                 *)

RECURSIVE BitXor(_, _)
BitXor(a, b) ==
    IF a = 0 THEN b
    ELSE IF b = 0 THEN a
    ELSE (((a % 2) + (b % 2)) % 2) + 2 * BitXor(a \div 2, b \div 2)

XorNibble == [a \in 0..15 |-> [b \in 0..15 |-> BitXor(a, b)]]
Xor8(a, b) == XorNibble[a % 16][b % 16] + 16 * XorNibble[a \div 16][b \div 16]
Xor16(a, b) == Xor8(a % 256, b % 256) + 256 * Xor8(a \div 256, b \div 256)
Xor32(a, b) == U32(Xor16(a.hi, b.hi), Xor16(a.lo, b.lo))

\* crc >>> 1
Shr1(a) == U32(a.hi \div 2, (a.lo \div 2) + 32768 * (a.hi % 2))

\* ~crc >>> 0
Not32(a) == U32(65535 - a.hi, 65535 - a.lo)

\* 0xEDB88320
CRC_POLY == U32(60856, 33568)

\* crc = (crc >>> 1) ^ (0xEDB88320 & -(crc & 1))
CrcBit(crc) ==
    IF crc.lo % 2 = 1 THEN Xor32(Shr1(crc), CRC_POLY) ELSE Shr1(crc)

\* The j iterations of the inner loop that are left, from the register crc.
RECURSIVE CrcBits(_, _)
CrcBits(crc, j) == IF j = 0 \/ crc.lo < 0 THEN crc ELSE CrcBits(CrcBit(crc), j - 1)

\* One iteration of the outer loop: crc ^= data[i], then the eight bit steps.
CrcByte(crc, byte) == CrcBits([crc EXCEPT !.lo = Xor16(@, byte)], 8)

\* Iterations lo..hi of the outer loop, from the register crc.
RECURSIVE CrcRange(_, _, _, _)
CrcRange(crc, bytes, lo, hi) ==
    IF lo > hi \/ crc.lo < 0 THEN crc
    ELSE IF lo = hi THEN CrcByte(crc, bytes[lo])
    ELSE CrcRange(CrcRange(crc, bytes, lo, (lo + hi) \div 2),
                  bytes, ((lo + hi) \div 2) + 1, hi)

\* The state of the outer loop after the first n bytes of data.
CrcLoop(bytes, n) == CrcRange(U32(65535, 65535), bytes, 1, n)

\* The register without the final complement.
CrcWithoutFinalXor(bytes) == CrcLoop(bytes, Len(bytes))

calculateCRC32(bytes) == Not32(CrcLoop(bytes, Len(bytes)))

-----------------------------------------------------------------------------
(* TextEncoder / TextDecoder (UTF-8) on sequences of code points < 65536.  *)

EncodeCodePoint(c) ==
    IF c < 128 THEN <<c>>
    ELSE IF c < 2048 THEN <<192 + (c \div 64), 128 + (c % 64)>>
    ELSE <<224 + (c \div 4096), 128 + ((c \div 64) % 64), 128 + (c % 64)>>

RECURSIVE EncodeRange(_, _, _)
EncodeRange(s, lo, hi) ==
    IF lo > hi THEN <<>>
    ELSE IF lo = hi THEN EncodeCodePoint(s[lo])
    ELSE LET mid == (lo + hi) \div 2
         IN  EncodeRange(s, lo, mid) \o EncodeRange(s, mid + 1, hi)

TextEncode(s) ==
    IF \A i \in 1..Len(s) : s[i] < 128 THEN s ELSE EncodeRange(s, 1, Len(s))

IsCont(b, i) == i >= 1 /\ i <= Len(b) /\ b[i] >= 128 /\ b[i] <= 191

\* The first continuation byte of a three-byte sequence has a narrowed
\* range after the leads 0xE0 (no overlong forms) and 0xED (no surrogates).
IsCont1Of3(b, i) ==
    /\ IsCont(b, i + 1)
    /\ (b[i] = 224 => b[i + 1] >= 160)
    /\ (b[i] = 237 => b[i + 1] <= 159)

\* The number of bytes the decoder consumes for the code point starting at
\* byte i (a malformed or truncated sequence yields U+FFFD for its valid
\* prefix); four-byte sequences are outside the modelled alphabet and are
\* consumed the same way, yielding U+FFFD.
DecodeWidth(b, i) ==
    LET c == b[i]
    IN  IF c < 194 \/ c > 244 THEN 1
        ELSE IF c < 224 THEN (IF IsCont(b, i + 1) THEN 2 ELSE 1)
        ELSE IF c < 240
             THEN (IF ~IsCont1Of3(b, i) THEN 1
                   ELSE IF IsCont(b, i + 2) THEN 3 ELSE 2)
        ELSE IF ~(IsCont(b, i + 1) /\ (c = 240 => b[i + 1] >= 144)
                                   /\ (c = 244 => b[i + 1] <= 143)) THEN 1
        ELSE IF ~IsCont(b, i + 2) THEN 2
        ELSE IF ~IsCont(b, i + 3) THEN 3 ELSE 4

\* Byte i starts a code point unless a sequence led by one of the three
\* bytes before it consumes it (a lead byte is never consumed).
StartsCodePoint(b, i) ==
    \/ ~IsCont(b, i)
    \/ ~\E k \in 1..3 :
            /\ i - k >= 1
            /\ \A j \in (i - k + 1)..(i - 1) : IsCont(b, j)
            /\ ~IsCont(b, i - k)
            /\ DecodeWidth(b, i - k) > k

DecodeAt(b, i) ==
    LET c == b[i]
        w == DecodeWidth(b, i)
    IN  IF c < 128 THEN c
        ELSE IF c >= 194 /\ c < 224 /\ w = 2 THEN (c - 192) * 64 + (b[i + 1] - 128)
        ELSE IF c >= 224 /\ c < 240 /\ w = 3
             THEN (c - 224) * 4096 + (b[i + 1] - 128) * 64 + (b[i + 2] - 128)
        ELSE 65533

TextDecode(b) ==
    IF \A i \in 1..Len(b) : b[i] < 128 THEN b
    ELSE LET starts == SelectSeq([i \in 1..Len(b) |-> i],
                                 LAMBDA i : StartsCodePoint(b, i))
         IN  [k \in 1..Len(starts) |-> DecodeAt(b, starts[k])]


-----------------------------------------------------------------------------
(* Values of the input mapping (typeof value, Number.isInteger(value)).    *)

StringValue(s) == [t |-> "string", s |-> s]
IntegerValue(v) == [t |-> "number", integer |-> TRUE, n |-> v]
FloatValue == [t |-> "number", integer |-> FALSE]
BooleanValue == [t |-> "boolean"]

\* value >= lo && value <= hi for an integer value and small bounds
Between(v, lo, hi) == v.hi = 0 /\ v.lo >= lo /\ v.lo <= hi

-----------------------------------------------------------------------------
(* createEntry(namespaceIndex, key, value)                                 *)

createEntry(namespaceIndex, key, value) ==
    LET strBytes == TextEncode(value.s)
        type ==
            IF value.t = "string" THEN TYPE_STR
            ELSE IF Between(value.n, 0, 255) THEN TYPE_U8
            ELSE IF Between(value.n, 0, 65535) THEN TYPE_U16
            ELSE TYPE_U32
        bytes ==
            IF value.t = "string" THEN strBytes \o <<0>>
            ELSE IF type = TYPE_U8 THEN <<value.n.lo>>
            ELSE IF type = TYPE_U16 THEN LE16(value.n.lo)
            ELSE LE32(ToUint32(value.n))
        span ==
            IF type = TYPE_STR \/ type = TYPE_BLOB
            THEN 1 + CeilDiv(Len(bytes), ENTRY_SIZE)
            ELSE 1
    IN  IF value.t = "number" /\ ~value.integer
        THEN [error |-> "FloatNotSupported"]
        ELSE IF value.t \notin {"string", "number"}
        THEN [error |-> "UnsupportedType"]
        ELSE [error |-> "none", namespace |-> namespaceIndex, type |-> type,
              span |-> span, key |-> key, data |-> bytes]

-----------------------------------------------------------------------------
(* writeEntry(binary, pageIndex, entryIndex, entry): the written buffer,   *)
(* or the RangeError of the first store that does not fit.                 *)

EntryOffset(pageIndex, entryIndex) ==
    pageIndex * PAGE_SIZE + 32 + entryIndex * ENTRY_SIZE

\* key.substring(0, 15), encoded
KeyBytes(key) == TextEncode(SubSeq(key, 1, Min(Len(key), 15)))

Thrown(kind) == [error |-> kind, binary |-> <<>>]
Written(b) == [error |-> "none", binary |-> b]

\* One step of writeEntry or finalizePage on w = [error, binary]: a store
\* of bytes at off that throws a RangeError when checked and out of range,
\* and is skipped once an earlier step has thrown.
Store(w, off, bytes, checked) ==
    IF w.error # "none" THEN w
    ELSE IF checked /\ ~InRange(w.binary, off, Len(bytes)) THEN Thrown("RangeError")
    ELSE Written(StoreBytes(w.binary, off, bytes))

\* Iterations lo..hi of the loop over the continuation entries:
\* binary.set(entry.data.slice(dataOffset, dataOffset + 32), nextEntryOffset)
RECURSIVE WriteChunks(_, _, _, _, _)
WriteChunks(w, offset, bytes, lo, hi) ==
    IF lo > hi \/ w.error # "none" THEN w
    ELSE IF lo = hi
    THEN Store(w, offset + lo * ENTRY_SIZE,
               Slice(bytes, (lo - 1) * ENTRY_SIZE, lo * ENTRY_SIZE), TRUE)
    ELSE WriteChunks(WriteChunks(w, offset, bytes, lo, (lo + hi) \div 2),
                     offset, bytes, ((lo + hi) \div 2) + 1, hi)

\* binary[offset + 0..3] = namespace, type, span, 0xFF
WriteHeader(w, offset, entry) ==
    Store(w, offset,
          <<entry.namespace % 256, entry.type % 256, entry.span % 256, 255>>, FALSE)

\* binary.set(keyBytes, offset + 8), then zeros up to the 16th key byte
WriteKey(w, offset, keyBytes) ==
    Store(Store(w, offset + 8, keyBytes, TRUE),
          offset + 8 + Len(keyBytes), [i \in 1..(16 - Len(keyBytes)) |-> 0], FALSE)

\* Strings and blobs: the length at 24-25 and the data in the continuation
\* entries; numeric types: the data inline at offset 24.
WritePayload(w, offset, entry) ==
    IF entry.type = TYPE_STR \/ entry.type = TYPE_BLOB
    THEN WriteChunks(Store(w, offset + 24, LE16(Len(entry.data) % 65536), TRUE),
                     offset, entry.data, 1, entry.span - 1)
    ELSE Store(w, offset + 24, entry.data, TRUE)

\* A faulty window: the first 28 bytes of the slot, the CRC field included.
\* C7 tells it from CrcWindow.
CrcWindowOverCrcField(b, offset) ==
    [i \in 1..28 |-> IF offset + i <= Len(b) THEN b[offset + i] ELSE 0]

\* The 28 bytes the entry CRC covers: bytes 0-3, 8-23 and 24-31 of the slot.
CrcWindow(b, offset) ==
    [i \in 1..4 |-> IF offset + i <= Len(b) THEN b[offset + i] ELSE 0]
    \o ZeroPadded(Slice(b, offset + 8, offset + 24), 16)
    \o ZeroPadded(Slice(b, offset + 24, offset + 32), 8)

\* view.setUint32(offset + 4, calculateCRC32(crcData), true)
WriteCrc(w, offset) ==
    IF w.error # "none" THEN w
    ELSE Store(w, offset + 4, LE32(calculateCRC32(CrcWindow(w.binary, offset))), TRUE)

writeEntry(binary, pageIndex, entryIndex, entry) ==
    WriteCrc(
        WritePayload(
            WriteKey(
                WriteHeader(Written(binary),
                            EntryOffset(pageIndex, entryIndex), entry),
                EntryOffset(pageIndex, entryIndex), KeyBytes(entry.key)),
            EntryOffset(pageIndex, entryIndex), entry),
        EntryOffset(pageIndex, entryIndex))

-----------------------------------------------------------------------------
(* finalizePage(binary, pageIndex, numEntries)                             *)

\* view.setUint32(offset + 28, calculateCRC32(binary.slice(offset, offset + 28)))
WriteHeaderCrc(w, offset) ==
    IF w.error # "none" THEN w
    ELSE Store(w, offset + 28,
               LE32(calculateCRC32(Slice(w.binary, offset, offset + 28))), TRUE)

finalizePage(binary, pageIndex, numEntries) ==
    WriteHeaderCrc(
        Store(Store(Store(Written(binary),
                          pageIndex * PAGE_SIZE, LE32(PAGE_STATE_ACTIVE), TRUE),
                    pageIndex * PAGE_SIZE + 4, LE32(JsInt(pageIndex)), TRUE),
              pageIndex * PAGE_SIZE + 8, LE32(U32(65535, 65535)), TRUE),
        pageIndex * PAGE_SIZE)

-----------------------------------------------------------------------------
(* generate(data, partitionSize)                                           *)
(*                                                                         *)
(* The loop state is [error, binary, pageIndex, entryIndex, writes];       *)
(* writes records the calls of writeEntry in order (page, slot, span,      *)
(* namespace byte, type).                                                  *)

\* namespaceMap[namespace] of the i-th namespace: ++namespaceIndex counts
\* the namespaces with at least one key up to and including it.
NamespaceIndex(d, i) == Cardinality({j \in 1..i : Len(d[j].entries) > 0})

Fail(st, kind) == [st EXCEPT !.error = kind]

\* binary[bitmapOffset] = 0xAA; binary[bitmapOffset + 1] = 0xAA
WriteBitmap(binary, pageIndex) ==
    StoreBytes(binary, pageIndex * PAGE_SIZE + 32, <<170, 170>>)

\* The loop state after a call w of writeEntry for entry at the cursor.
AfterWrite(st, entry, w) ==
    IF w.error # "none" THEN Fail(st, w.error)
    ELSE [st EXCEPT !.binary = w.binary,
                    !.writes = Append(@, [page |-> st.pageIndex,
                                          slot |-> st.entryIndex,
                                          span |-> entry.span,
                                          namespace |-> entry.namespace,
                                          type |-> entry.type])]

EmitEntry(st, entry) ==
    AfterWrite(st, entry,
               writeEntry(st.binary, st.pageIndex, st.entryIndex, entry))

\* pageIndex++; entryIndex = 1; the bitmap of the new page; the throw when
\* no page is left.  f is finalizePage of the full page.
OpenNextPage(st, numPages, f) ==
    IF f.error # "none" THEN Fail(st, f.error)
    ELSE [st EXCEPT !.binary = WriteBitmap(f.binary, st.pageIndex + 1),
                    !.pageIndex = st.pageIndex + 1,
                    !.entryIndex = 1,
                    !.error = IF st.pageIndex + 1 >= numPages
                              THEN "PartitionTooSmall" ELSE "none"]

\* "Move to next page if current page is full"
NextPageIfFull(st, numPages) ==
    IF st.error = "none" /\ st.entryIndex >= ENTRIES_PER_PAGE
    THEN OpenNextPage(st, numPages,
                      finalizePage(st.binary, st.pageIndex, st.entryIndex))
    ELSE st

\* entryIndex += span (after writeEntry returned)
Advance(st, span) ==
    IF st.error # "none" THEN st ELSE [st EXCEPT !.entryIndex = @ + span]

\* The body of the loop over the keys, for the entry createEntry returned.
PlaceEntry(st, numPages, entry) ==
    IF entry.error # "none" THEN Fail(st, entry.error)
    ELSE NextPageIfFull(Advance(EmitEntry(st, entry), entry.span), numPages)

GenerateKey(st, numPages, nsIndex, key, value) ==
    PlaceEntry(st, numPages, createEntry(nsIndex, key, value))

\* Iterations lo..hi of the loop over the keys of one namespace.
RECURSIVE GenerateKeys(_, _, _, _, _, _)
GenerateKeys(st, numPages, nsIndex, entries, lo, hi) ==
    IF lo > hi \/ st.error # "none" THEN st
    ELSE IF lo = hi
    THEN GenerateKey(st, numPages, nsIndex, entries[lo].key, entries[lo].value)
    ELSE GenerateKeys(
            GenerateKeys(st, numPages, nsIndex, entries, lo, (lo + hi) \div 2),
            numPages, nsIndex, entries, ((lo + hi) \div 2) + 1, hi)

\* The body of the loop over the namespaces: the namespace entry, written
\* at entryIndex++ without a look at the page, then the keys.
GenerateNamespace(st, numPages, d, i) ==
    IF Len(d[i].entries) = 0 THEN st
    ELSE GenerateKeys(
            Advance(EmitEntry(st, [namespace |-> 0, type |-> 1, span |-> 1,
                                   key |-> d[i].name,
                                   data |-> <<NamespaceIndex(d, i) % 256>>]), 1),
            numPages, NamespaceIndex(d, i), d[i].entries, 1, Len(d[i].entries))

\* Iterations lo..hi of the loop over the namespaces.
RECURSIVE GenerateNamespaces(_, _, _, _, _)
GenerateNamespaces(st, numPages, d, lo, hi) ==
    IF lo > hi \/ st.error # "none" THEN st
    ELSE IF lo = hi THEN GenerateNamespace(st, numPages, d, lo)
    ELSE GenerateNamespaces(
            GenerateNamespaces(st, numPages, d, lo, (lo + hi) \div 2),
            numPages, d, ((lo + hi) \div 2) + 1, hi)

\* The state generate starts its loops in.
InitialState(size) ==
    [error |-> "none",
     binary |-> WriteBitmap([i \in 1..size |-> 255], 0),
     pageIndex |-> 0, entryIndex |-> 1, writes |-> <<>>]

\* "Finalize last page" with f = finalizePage of it, and the return.
Return(st, f) ==
    IF st.entryIndex > 0
    THEN [st EXCEPT !.error = f.error, !.binary = f.binary]
    ELSE st

FinalizeLastPage(st) ==
    IF st.error # "none" THEN [st EXCEPT !.binary = <<>>]
    ELSE Return(st, finalizePage(st.binary, st.pageIndex, st.entryIndex))

generate(d, size) ==
    FinalizeLastPage(
        GenerateNamespaces(InitialState(size), size \div PAGE_SIZE, d, 1, Len(d)))

-----------------------------------------------------------------------------
(* NVSGenerator.prototype.parse(binary)                                    *)
(*                                                                         *)
(* The walk state is [status, data, namespaces]: status is "ok", the       *)
(* RangeError of a view past the end of the buffer, or "diverges" when the *)
(* entry loop stops advancing (entryIdx += span with span = 0).            *)

BytesValue(b) == [t |-> "bytes", b |-> b]

\* DataView.getInt8 / getInt16 / getInt32 as integer values
SignedValue(n, bits) ==
    IF bits = 32
    THEN IntegerValue(IF n.hi >= 32768 THEN U32(n.hi - 65536, n.lo) ELSE n)
    ELSE IF n.lo >= (IF bits = 8 THEN 128 ELSE 32768)
    THEN IntegerValue(JsInt(n.lo - (IF bits = 8 THEN 256 ELSE 65536)))
    ELSE IntegerValue(n)

\* The decimal digits of n >= 0 as character codes (template literal).
RECURSIVE Decimal(_)
Decimal(n) ==
    IF n < 10 THEN <<48 + n>> ELSE Decimal(n \div 10) \o <<48 + (n % 10)>>

\* A faulty name: the index alone.  C19 tells it from SyntheticName.
SyntheticNameIndexOnly(namespace) == Decimal(namespace)

\* `ns_${namespace}`
SyntheticName(namespace) == <<110, 115, 95>> \o Decimal(namespace)

\* Ordered mappings: !data[name], data[name] = {}, data[name][key] = value.
HasName(m, name) == \E i \in 1..Len(m) : m[i].name = name
NameAt(m, name) == CHOOSE i \in 1..Len(m) : m[i].name = name
HasKey(es, key) == \E i \in 1..Len(es) : es[i].key = key
KeyAt(es, key) == CHOOSE i \in 1..Len(es) : es[i].key = key

EnsureName(m, name) ==
    IF HasName(m, name) THEN m ELSE Append(m, [name |-> name, entries |-> <<>>])

PutKey(es, key, value) ==
    IF HasKey(es, key) THEN [es EXCEPT ![KeyAt(es, key)].value = value]
    ELSE Append(es, [key |-> key, value |-> value])

PutValue(m, name, key, value) ==
    LET m1 == EnsureName(m, name)
    IN  [m1 EXCEPT ![NameAt(m1, name)].entries = PutKey(@, key, value)]

\* chunkSize of iteration s of the loop over the continuation entries
ChunkSize(strLen, s) == Max(0, Min(strLen - ENTRY_SIZE * (s - 1), ENTRY_SIZE))

\* The loop over the continuation entries of a string: each iteration views
\* chunkSize bytes at the next slot; the views are contiguous, so totalBytes
\* is the zero-filled array with the viewed bytes in front.
ReadString(b, entryOffset, span, strLen) ==
    IF \E s \in 1..(span - 1) :
            entryOffset + s * ENTRY_SIZE + ChunkSize(strLen, s) > Len(b)
    THEN [error |-> "RangeError"]
    ELSE LET bytesRead == Min(strLen, ENTRY_SIZE * Max(span - 1, 0))
             totalBytes == ZeroPadded(Slice(b, entryOffset + ENTRY_SIZE,
                                            entryOffset + ENTRY_SIZE + bytesRead),
                                      strLen)
             nullIndex == IndexOf(totalBytes, 0)
             actualLen == IF nullIndex >= 0 THEN nullIndex ELSE strLen
         IN  [error |-> "none",
              value |-> StringValue(TextDecode(Slice(totalBytes, 0, actualLen)))]

\* The value of a data entry by type; known is FALSE for an unknown type.
ReadValue(b, entryOffset, type, span) ==
    LET at == entryOffset + 24
        blobLen == GetUint16(b, entryOffset + 20)
        str == ReadString(b, entryOffset, span, GetUint16(b, at))
        num(v) == [known |-> TRUE, error |-> "none", value |-> v]
    IN  IF type = TYPE_U8 THEN num(IntegerValue(JsInt(GetUint8(b, at))))
        ELSE IF type = TYPE_I8 THEN num(SignedValue(JsInt(GetUint8(b, at)), 8))
        ELSE IF type = TYPE_U16 THEN num(IntegerValue(JsInt(GetUint16(b, at))))
        ELSE IF type = TYPE_I16 THEN num(SignedValue(JsInt(GetUint16(b, at)), 16))
        ELSE IF type = TYPE_U32 THEN num(IntegerValue(GetUint32(b, at)))
        ELSE IF type = TYPE_I32 THEN num(SignedValue(GetUint32(b, at), 32))
        ELSE IF type = TYPE_STR
        THEN (IF str.error # "none"
              THEN [known |-> TRUE, error |-> str.error]
              ELSE num(str.value))
        ELSE IF type = TYPE_BLOB
        THEN num(BytesValue(Slice(b, at, at + Min(blobLen, 8))))
        ELSE [known |-> FALSE, error |-> "none"]

\* The first slot at or after entryIdx whose namespace byte is not 0xFF
\* (ENTRIES_PER_PAGE when there is none): where the loop is after the
\* iterations that only skip empty entries.
SkipEmpty(b, pageOffset, entryIdx) ==
    LET used == {j \in entryIdx..(ENTRIES_PER_PAGE - 1) :
                    b[pageOffset + 32 + j * ENTRY_SIZE + 1] # 255}
    IN  IF used = {} THEN ENTRIES_PER_PAGE
        ELSE CHOOSE j \in used : \A k \in used : j <= k

\* A faulty iteration: an unknown type advances by the span byte of the slot,
\* as the known types do.  C18 tells it from ParseEntry.
ParseEntrySkippingSpan(acc, b, pageOffset, entryIdx) ==
    LET entryOffset == pageOffset + 32 + entryIdx * ENTRY_SIZE
        namespace == GetUint8(b, entryOffset)
        type == GetUint8(b, entryOffset + 1)
        span == GetUint8(b, entryOffset + 2)
        keyBytes == Slice(b, entryOffset + 8, entryOffset + 24)
        keyEnd == IndexOf(keyBytes, 0)
        key == TextDecode(Slice(keyBytes, 0, IF keyEnd > 0 THEN keyEnd ELSE 16))
        nsIndex == GetUint8(b, entryOffset + 24)
        namespaceName ==
            IF namespace \in DOMAIN acc.namespaces /\ acc.namespaces[namespace] # <<>>
            THEN acc.namespaces[namespace]
            ELSE SyntheticName(namespace)
        withName == [acc EXCEPT !.data = EnsureName(@, namespaceName)]
        v == ReadValue(b, entryOffset, type, span)
        stuck == [acc EXCEPT !.status = "diverges"]
    IN  IF type = 1 /\ namespace = 0
        THEN [acc |-> IF span = 0 THEN stuck
                      ELSE [acc EXCEPT
                              !.namespaces = [i \in DOMAIN @ \cup {nsIndex} |->
                                                IF i = nsIndex THEN key ELSE @[i]],
                              !.data = EnsureName(@, key)],
              next |-> entryIdx + span]
        ELSE IF ~v.known
        THEN [acc |-> withName, next |-> entryIdx + Max(span, 1)]
        ELSE IF v.error # "none"
        THEN [acc |-> [acc EXCEPT !.status = v.error], next |-> entryIdx]
        ELSE [acc |-> IF span = 0 THEN stuck
                      ELSE [acc EXCEPT !.data = PutValue(@, namespaceName, key, v.value)],
              next |-> entryIdx + span]

\* One iteration of the entry loop at a used slot: the walk state after it
\* and the next entryIdx.
ParseEntry(acc, b, pageOffset, entryIdx) ==
    LET entryOffset == pageOffset + 32 + entryIdx * ENTRY_SIZE
        namespace == GetUint8(b, entryOffset)
        type == GetUint8(b, entryOffset + 1)
        span == GetUint8(b, entryOffset + 2)
        keyBytes == Slice(b, entryOffset + 8, entryOffset + 24)
        keyEnd == IndexOf(keyBytes, 0)
        key == TextDecode(Slice(keyBytes, 0, IF keyEnd > 0 THEN keyEnd ELSE 16))
        nsIndex == GetUint8(b, entryOffset + 24)
        namespaceName ==
            IF namespace \in DOMAIN acc.namespaces /\ acc.namespaces[namespace] # <<>>
            THEN acc.namespaces[namespace]
            ELSE SyntheticName(namespace)
        withName == [acc EXCEPT !.data = EnsureName(@, namespaceName)]
        v == ReadValue(b, entryOffset, type, span)
        stuck == [acc EXCEPT !.status = "diverges"]
    IN  IF type = 1 /\ namespace = 0
        THEN [acc |-> IF span = 0 THEN stuck
                      ELSE [acc EXCEPT
                              !.namespaces = [i \in DOMAIN @ \cup {nsIndex} |->
                                                IF i = nsIndex THEN key ELSE @[i]],
                              !.data = EnsureName(@, key)],
              next |-> entryIdx + span]
        ELSE IF ~v.known
        THEN [acc |-> withName, next |-> entryIdx + 1]
        ELSE IF v.error # "none"
        THEN [acc |-> [acc EXCEPT !.status = v.error], next |-> entryIdx]
        ELSE [acc |-> IF span = 0 THEN stuck
                      ELSE [acc EXCEPT !.data = PutValue(@, namespaceName, key, v.value)],
              next |-> entryIdx + span]

\* One iteration of the entry loop from the loop state s = [acc, next], at
\* being the first used slot from s.next on: the iteration at that slot, or
\* the end of the page.
EntryStep(s, b, pageOffset, at) ==
    IF at >= ENTRIES_PER_PAGE THEN [acc |-> s.acc, next |-> at]
    ELSE ParseEntry(s.acc, b, pageOffset, at)

\* Up to k iterations of the entry loop from the loop state s; the loop
\* stops at the end of the page and when the walk is no longer ok.
RECURSIVE RunEntries(_, _, _, _)
RunEntries(s, b, pageOffset, k) ==
    IF s.acc.status # "ok" \/ s.next >= ENTRIES_PER_PAGE THEN s
    ELSE IF k = 1 THEN EntryStep(s, b, pageOffset, SkipEmpty(b, pageOffset, s.next))
    ELSE RunEntries(RunEntries(s, b, pageOffset, k \div 2),
                    b, pageOffset, k - (k \div 2))

\* The entry loop of one page from entryIdx on: every iteration that
\* continues advances entryIdx, so it has at most ENTRIES_PER_PAGE of them.
ParseEntries(acc, b, pageOffset, entryIdx) ==
    RunEntries([acc |-> acc, next |-> entryIdx], b, pageOffset, ENTRIES_PER_PAGE).acc

\* A faulty page loop body that skips EMPTY pages only.  C20 tells it from
\* ParsePage.
ParsePageSkippingEmptyOnly(acc, b, pageIdx) ==
    IF GetUint32(b, pageIdx * PAGE_SIZE) = PAGE_STATE_EMPTY THEN acc
    ELSE ParseEntries(acc, b, pageIdx * PAGE_SIZE, 1)

\* The body of the page loop.
ParsePage(acc, b, pageIdx) ==
    LET pageOffset == pageIdx * PAGE_SIZE
        pageState == GetUint32(b, pageOffset)
    IN  IF pageState = PAGE_STATE_EMPTY \/ pageState = U32(0, 0) THEN acc
        ELSE ParseEntries(acc, b, pageOffset, 1)

\* The walk state after the first n pages.
RECURSIVE ParsePages(_, _)
ParsePages(b, n) ==
    IF n = 0 THEN [status |-> "ok", data |-> <<>>, namespaces |-> <<>>]
    ELSE LET acc == ParsePages(b, n - 1)
         IN  IF acc.status # "ok" THEN acc ELSE ParsePage(acc, b, n - 1)

parse(binary) ==
    LET acc == ParsePages(binary, Len(binary) \div PAGE_SIZE)
    IN  [status |-> acc.status, data |-> acc.data]


-----------------------------------------------------------------------------
(* Inputs.  Bounds of the model.                                           *)

MaxPages == 3       \* partitions of 1..MaxPages pages
MaxTail == 2        \* keys that follow the padding string in a namespace
MaxKeyLen == 16     \* key and namespace names of 1..MaxKeyLen characters
ManyNamespaces == 256

Name_config == <<99, 111, 110, 102, 105, 103>>
Name_wifi == <<119, 105, 102, 105>>
Key_pad == <<112, 97, 100>>
Key_led == <<108, 101, 100>>
Key_ssid == <<115, 115, 105, 100>>
Key_port == <<112, 111, 114, 116>>
Key_cert == <<99, 101, 114, 116>>
Key_url == <<117, 114, 108>>
Str_HomeWiFi == <<72, 111, 109, 101, 87, 105, 70, 105>>

\* A string of n letters x; XString(PadLength(k)) is an entry of span k.
XString(n) == StringValue([i \in 1..n |-> 120])
PadLength(k) == ENTRY_SIZE * (k - 1) - 20

\* A name of n distinct-looking letters: abc...
Letters(n) == [i \in 1..n |-> 97 + ((i - 1) % 26)]

KV(k, v) == [key |-> k, value |-> v]
NS(n, es) == [name |-> n, entries |-> es]

\* Spans of the padding string that put the cursor near the end of a page
\* (0: no padding string).
PadSpans == {0, 122, 123, 124, 125, 126, 251, 254}
Pad(k) == IF k = 0 THEN <<>> ELSE <<KV(Key_pad, XString(PadLength(k)))>>

TailPool ==
    { KV(Key_led, IntegerValue(JsInt(5))),
      KV(Key_ssid, StringValue(Str_HomeWiFi)),
      KV(Key_url, XString(PadLength(5))) }

DistinctKeys(es) == \A i, j \in 1..Len(es) : i # j => es[i].key # es[j].key

Tails(n) ==
    UNION {{es \in [1..len -> TailPool] : DistinctKeys(es)} : len \in 0..n}

PageSizes == {PAGE_SIZE * n : n \in 1..MaxPages}

\* One namespace: padding string, then up to MaxTail keys.
OneNamespaceInputs ==
    {[data |-> <<NS(Name_config, Pad(k) \o t)>>, size |-> sz] :
        k \in PadSpans, t \in Tails(MaxTail), sz \in PageSizes}

\* Two namespaces, either of which may have no key.
TwoNamespaceInputs ==
    {[data |-> <<NS(Name_config, Pad(k) \o t1), NS(Name_wifi, t2)>>, size |-> sz] :
        k \in {0, 122, 123}, t1 \in Tails(1), t2 \in Tails(1), sz \in PageSizes}

\* Names of every length from 0 to MaxKeyLen, as key and as namespace, and two
\* keys that differ only after their 15th character.
NameInputs ==
    {[data |-> <<NS(Letters(n), <<KV(Letters(m), IntegerValue(JsInt(7)))>>)>>,
      size |-> DEFAULT_PARTITION_SIZE] : n \in {0, 1, MaxKeyLen}, m \in 0..MaxKeyLen}
    \cup
    {[data |-> <<NS(Name_config,
                    <<KV(Letters(15) \o <<c1>>, IntegerValue(JsInt(1))),
                      KV(Letters(15) \o <<c2>>, IntegerValue(JsInt(2)))>>)>>,
      size |-> DEFAULT_PARTITION_SIZE] : c1 \in {120}, c2 \in {121}}

ValuePool ==
    { IntegerValue(JsInt(0)), IntegerValue(JsInt(255)), IntegerValue(JsInt(256)),
      IntegerValue(JsInt(1883)),
      IntegerValue(JsInt(65535)), IntegerValue(JsInt(65536)),
      IntegerValue(U32(65535, 65535)), IntegerValue(U32(65536, 0)),
      IntegerValue(JsInt(-1)), IntegerValue(JsInt(-200)),
      IntegerValue(JsInt(-128)), IntegerValue(JsInt(-129)),
      IntegerValue(JsInt(-32768)), IntegerValue(JsInt(-32769)),
      IntegerValue(U32(-32768, 0)),
      FloatValue, BooleanValue, BytesValue(<<1, 2, 3>>),
      StringValue(<<>>), StringValue(<<104, 233, 8364>>),
      StringValue(<<97, 0, 98>>), XString(31), XString(32), XString(200) }

ValueInputs ==
    {[data |-> <<NS(Name_config, <<KV(Key_led, v)>>)>>,
      size |-> DEFAULT_PARTITION_SIZE] : v \in ValuePool}

\* {wifi: {ssid: "HomeWiFi", port: 1883}} and a byte-array value after a key.
ScenarioInputs ==
    {[data |-> <<NS(Name_wifi, <<KV(Key_ssid, StringValue(Str_HomeWiFi)),
                                 KV(Key_port, IntegerValue(JsInt(1883)))>>)>>,
      size |-> DEFAULT_PARTITION_SIZE],
     [data |-> <<NS(Name_config, <<KV(Key_led, IntegerValue(JsInt(5))),
                                   KV(Key_cert, BytesValue(<<1, 2, 3>>))>>)>>,
      size |-> DEFAULT_PARTITION_SIZE]}

\* A string too long for the span byte (257 slots).
LongStringInputs ==
    {[data |-> <<NS(Name_config, <<KV(Key_pad, XString(PadLength(257)))>>)>>,
      size |-> PAGE_SIZE * MaxPages]}

\* Partition sizes that are not a positive multiple of the page size.
OddSizes == {0, 100, PAGE_SIZE + 1}

OddSizeInputs ==
    {[data |-> d, size |-> sz] :
        d \in {<<>>, <<NS(Name_config, <<KV(Key_led, IntegerValue(JsInt(5)))>>)>>,
               <<NS(Name_wifi, <<KV(Key_ssid, StringValue(Str_HomeWiFi)),
                                 KV(Key_port, IntegerValue(JsInt(1883)))>>)>>},
        sz \in OddSizes}

\* ManyNamespaces namespaces n0, n1, ... of one key each.
ManyNamespacesInput ==
    [data |-> [i \in 1..ManyNamespaces |->
                  NS(<<110>> \o Decimal(i - 1), <<KV(Key_led, IntegerValue(JsInt(i % 200)))>>)],
     size |-> DEFAULT_PARTITION_SIZE]

Inputs ==
    OneNamespaceInputs \cup TwoNamespaceInputs \cup NameInputs \cup ValueInputs
    \cup ScenarioInputs \cup OddSizeInputs \cup LongStringInputs
    \cup {ManyNamespacesInput}

-----------------------------------------------------------------------------
(* The specification: an input is chosen, generate is applied to it, and   *)
(* parse is applied to the image generate returned.                        *)

NoResult == [error |-> "none", binary |-> <<>>, pageIndex |-> 0,
             entryIndex |-> 0, writes |-> <<>>]
NoParse == [status |-> "none", data |-> <<>>]

Init ==
    /\ \E in \in Inputs : data = in.data /\ partitionSize = in.size
    /\ pc = "start"
    /\ result = NoResult
    /\ parsed = NoParse
    /\ CrcIdle
    /\ AppIdle

Generate ==
    /\ pc = "start"
    /\ result' = generate(data, partitionSize)
    /\ pc' = "generated"
    /\ UNCHANGED <<data, partitionSize, parsed>>
    /\ UNCHANGED <<crcVars, connVars, buttonVars, flashVars>>

Parse ==
    /\ pc = "generated"
    /\ result.error = "none"
    /\ parsed' = parse(result.binary)
    /\ pc' = "parsed"
    /\ UNCHANGED <<data, partitionSize, result>>
    /\ UNCHANGED <<crcVars, connVars, buttonVars, flashVars>>

Next == Generate \/ Parse

Spec == Init /\ [][Next]_vars


-----------------------------------------------------------------------------
(* Buffers read back from a device: the argument of parseNVSConfig, which  *)
(* hands it to parse.  Such a buffer is not the work of generate; its      *)
(* slots hold whatever the flash holds.  A buffer of the model is erased   *)
(* flash with, on one page, a state word and a run of consecutive raw      *)
(* slots starting at a chosen slot index.                                  *)

MaxBufferPages == 2     \* buffers of 1..MaxBufferPages pages

Erased(n) == [i \in 1..n |-> 255]

\* A raw 32-byte slot: namespace, type, span, reserved, CRC field (which
\* parse does not read), 16-byte key field, 8 data bytes.
RawSlot(ns, type, span, key, tail) ==
    <<ns, type, span, 255, 0, 0, 0, 0>> \o ZeroPadded(key, 16) \o ZeroPadded(tail, 8)

\* A payload slot: the bytes, then erased flash.
PayloadSlot(bytes) == bytes \o Erased(ENTRY_SIZE - Len(bytes))

RawDefinition(name, index) == RawSlot(0, 1, 1, name, <<index>> \o Erased(7))

LedSlot(ns) == RawSlot(ns, TYPE_U8, 1, Key_led, <<5>> \o Erased(7))

\* Runs of raw slots whose first entry belongs to namespace index ns.
Runs(ns) ==
    { \* numeric entries of every type
      <<RawSlot(ns, TYPE_U8, 1, Key_port, <<200>> \o Erased(7))>>,
      <<RawSlot(ns, TYPE_I8, 1, Key_port, <<200>> \o Erased(7))>>,
      <<RawSlot(ns, TYPE_U16, 1, Key_port, <<91, 135>> \o Erased(6))>>,
      <<RawSlot(ns, TYPE_I16, 1, Key_port, <<91, 135>> \o Erased(6))>>,
      <<RawSlot(ns, TYPE_U32, 1, Key_port, <<1, 2, 3, 200>> \o Erased(4))>>,
      <<RawSlot(ns, TYPE_I32, 1, Key_port, <<1, 2, 3, 200>> \o Erased(4))>>,
      \* a string, then a key
      <<RawSlot(ns, TYPE_STR, 2, Key_ssid, <<9, 0>> \o Erased(6)),
        PayloadSlot(Str_HomeWiFi \o <<0>>), LedSlot(ns)>>,
      \* a string whose span and length point past its payload
      <<RawSlot(ns, TYPE_STR, 5, Key_ssid, <<100, 0>> \o Erased(6)),
        PayloadSlot(Str_HomeWiFi)>>,
      <<RawSlot(ns, TYPE_STR, 2, Key_ssid, <<232, 3>> \o Erased(6)),
        PayloadSlot(Str_HomeWiFi \o <<0>>)>>,
      \* span byte 0: a key, a string, a namespace definition
      <<RawSlot(ns, TYPE_U8, 0, Key_port, <<200>> \o Erased(7)), LedSlot(ns)>>,
      <<RawSlot(ns, TYPE_STR, 0, Key_ssid, <<9, 0>> \o Erased(6)), LedSlot(ns)>>,
      <<RawSlot(0, 1, 0, Name_wifi, <<ns>> \o Erased(7)), LedSlot(ns)>>,
      \* blobs: length at bytes 24-25, bytes in the next slot
      <<RawSlot(ns, TYPE_BLOB, 2, Key_cert, <<3, 0>> \o Erased(6)),
        PayloadSlot(<<1, 2, 3>>), LedSlot(ns)>>,
      <<RawSlot(ns, TYPE_BLOB, 2, Letters(14), <<3, 0>> \o Erased(6)),
        PayloadSlot(<<1, 2, 3>>), LedSlot(ns)>>,
      \* unknown type tags with span bytes 0, 1, 3, then a key
      <<RawSlot(ns, 5, 0, Key_port, <<200>> \o Erased(7)), LedSlot(ns)>>,
      <<RawSlot(ns, 66, 1, Key_port, <<200>> \o Erased(7)), LedSlot(ns)>>,
      <<RawSlot(ns, 72, 3, Key_port, <<200>> \o Erased(7)), LedSlot(ns)>>,
      <<RawSlot(ns, 0, 3, Key_port, <<200>> \o Erased(7)), LedSlot(ns)>> }

\* The runs, with and without the definition of their namespace in front;
\* a run without it refers to a namespace index that was never defined.
RunPool ==
    {<<RawDefinition(Name_config, 1)>> \o r : r \in Runs(1)}
    \cup Runs(1) \cup Runs(7) \cup {<<>>}

RECURSIVE Concat(_)
Concat(q) == IF q = <<>> THEN <<>> ELSE Head(q) \o Concat(Tail(q))

StateWords == {PAGE_STATE_ACTIVE, PAGE_STATE_FULL, PAGE_STATE_EMPTY, U32(0, 0),
               U32(65535, 65528)}

\* Slot indices the run starts at: the first slot, and the last slots parse
\* scans.
RunStarts == {1, ENTRIES_PER_PAGE - 2, ENTRIES_PER_PAGE - 1}

\* Every other page of the buffer is ACTIVE and holds {wifi: {led: 5}}
\* under namespace index 2.
OtherPage(b, p) ==
    StoreBytes(StoreBytes(b, p * PAGE_SIZE, LE32(PAGE_STATE_ACTIVE)),
               EntryOffset(p, 1), RawDefinition(Name_wifi, 2) \o LedSlot(2))

RECURSIVE OtherPages(_, _, _)
OtherPages(b, n, page) ==
    IF n = 0 THEN b
    ELSE OtherPages(IF n - 1 = page THEN b ELSE OtherPage(b, n - 1), n - 1, page)

Buffer(n, page, word, start, run) ==
    StoreBytes(StoreBytes(OtherPages(Erased(n * PAGE_SIZE), n, page),
                          page * PAGE_SIZE, LE32(word)),
               EntryOffset(page, start), Concat(run))

Buffers ==
    {Buffer(n, page, word, start, run) :
        n \in 1..MaxBufferPages, page \in 0..(MaxBufferPages - 1),
        word \in StateWords, start \in RunStarts, run \in RunPool}
    \cup {Erased(DEFAULT_PARTITION_SIZE)}

\* The specification of parse on a buffer read back from a device: the
\* buffer stands where the image of generate stands in Spec.
ReadInit ==
    /\ \E b \in Buffers :
          /\ result = [NoResult EXCEPT !.binary = b]
          /\ partitionSize = Len(b)
    /\ data = <<>>
    /\ pc = "read"
    /\ parsed = NoParse
    /\ CrcIdle
    /\ AppIdle

ParseBuffer ==
    /\ pc = "read"
    /\ parsed' = parse(result.binary)
    /\ pc' = "parsed"
    /\ UNCHANGED <<data, partitionSize, result>>
    /\ UNCHANGED <<crcVars, connVars, buttonVars, flashVars>>

ParseSpec == ReadInit /\ [][ParseBuffer]_vars

-----------------------------------------------------------------------------
(* calculateCRC32 on its own: a byte sequence is chosen and the function   *)
(* is applied to it.                                                       *)

MaxCrcLen == 3          \* byte sequences of 0..MaxCrcLen bytes

CrcAlphabet == {0, 1, 97, 128, 255}

\* The ASCII bytes of "123456789".
Ascii123456789 == <<49, 50, 51, 52, 53, 54, 55, 56, 57>>

CrcInputs ==
    UNION {[1..n -> CrcAlphabet] : n \in 0..MaxCrcLen}
    \cup {Ascii123456789, [i \in 1..28 |-> 255], [i \in 1..32 |-> 0]}

\* generate and parse are not running.
NvsIdle ==
    /\ data = <<>>
    /\ partitionSize = 0
    /\ pc = "idle"
    /\ result = NoResult
    /\ parsed = NoParse

CrcInit ==
    /\ crcData \in CrcInputs
    /\ crcResult = <<>>
    /\ NvsIdle
    /\ AppIdle

ComputeCrc ==
    /\ crcResult = <<>>
    /\ crcResult' = <<calculateCRC32(crcData)>>
    /\ UNCHANGED crcData
    /\ UNCHANGED <<nvsVars, connVars, buttonVars, flashVars>>

CrcSpec == CrcInit /\ [][ComputeCrc]_vars

-----------------------------------------------------------------------------
(* DeviceConnection.connect / disconnect, called by                        *)
(* FlasherApp.attemptAutoReconnect (with a port) and FlasherApp.handleConnect *)
(* (without).  A call runs from one await to the next in one step; between *)
(* two steps of a call the steps of other calls may run.  A call that has  *)
(* thrown is at the catch clause with its error recorded.                  *)

MaxCalls == 2           \* connect() calls 1..MaxCalls, numbered as they start

CallIds == 1..MaxCalls

NoCall == [pc |-> "idle", port |-> FALSE, error |-> "none", handled |-> 0,
           leftTransport |-> <<>>, leftEspStub |-> <<>>, leftConnected |-> FALSE]

\* The page after FlasherApp.init, before attemptAutoReconnect calls connect.
ConnectInit ==
    /\ transport = <<>>
    /\ espStub = <<>>
    /\ isConnected = FALSE
    /\ calls = [c \in CallIds |-> NoCall]
    /\ connectedBy = 0
    /\ chipOverride = FALSE
    /\ extDisconnect = "idle"
    /\ btnConnect = [disabled |-> FALSE, display |-> "block"]
    /\ btnFlash = [disabled |-> TRUE, display |-> "none"]
    /\ btnWriteConfig = [disabled |-> TRUE, display |-> "block"]
    /\ FlashIdle
    /\ NvsIdle
    /\ CrcIdle

\* Call c is inside connect().
InConnect(c) == calls[c].pc \notin {"idle", "resolved", "rejected", "done"}

\* this.transport = null; this.espStub = null; this.isConnected = false
ResetFields ==
    /\ transport' = <<>>
    /\ espStub' = <<>>
    /\ isConnected' = FALSE

\* await this.disconnect() in call c, whose record is cs[c]: with a
\* transport the call waits for transport.disconnect(); without one
\* disconnect() resets the fields at once and the call waits for its return.
DisconnectFrom(cs, c, closing, returned) ==
    IF transport # <<>>
    THEN /\ calls' = [cs EXCEPT ![c].pc = closing]
         /\ UNCHANGED <<transport, espStub, isConnected>>
    ELSE /\ calls' = [cs EXCEPT ![c].pc = returned]
         /\ ResetFields

\* The entry of the try block: with options.port the call goes to the
\* import, without it to navigator.serial.requestPort().
TryBlock(cs, c) ==
    /\ calls' = [cs EXCEPT ![c].pc = IF cs[c].port THEN "import" ELSE "requestPort"]
    /\ UNCHANGED <<transport, espStub, isConnected>>

\* The catch clause: await this.disconnect().
Catch(c, err) ==
    DisconnectFrom([calls EXCEPT ![c].error = err], c, "catch_closing", "catch_returned")

\* this.isConnected = true; return { chipType, macAddr }
Connected(c) ==
    /\ isConnected' = TRUE
    /\ connectedBy' = c
    /\ calls' = [calls EXCEPT ![c].pc = "resolved"]
    /\ UNCHANGED <<transport, espStub>>

\* What no step of connect() changes.
ConnectFrame ==
    UNCHANGED <<extDisconnect, btnConnect, buttonVars, flashVars, nvsVars, crcVars>>

\* connect(project, options) is called: by attemptAutoReconnect with a port
\* (once), by a click on the Connect button without.
ConnectCall(c, port) ==
    /\ calls[c].pc = "idle"
    /\ \A d \in CallIds : d < c => calls[d].pc # "idle"
    /\ IF port THEN \A d \in CallIds : ~calls[d].port
       ELSE ~btnConnect.disabled /\ btnConnect.display # "none"
    /\ IF transport # <<>> \/ isConnected
       THEN DisconnectFrom([calls EXCEPT ![c].port = port], c,
                           "cleanup_closing", "cleanup_returned")
       ELSE TryBlock([calls EXCEPT ![c].port = port], c)
    /\ UNCHANGED <<connectedBy, chipOverride>>
    /\ ConnectFrame

\* transport.disconnect() has settled inside a disconnect() of call c.
DisconnectFinish(c) ==
    /\ calls[c].pc \in {"cleanup_closing", "cancel_closing", "catch_closing"}
    /\ ResetFields
    /\ calls' = [calls EXCEPT ![c].pc =
                    IF @ = "cleanup_closing" THEN "cleanup_returned"
                    ELSE IF @ = "cancel_closing" THEN "cancel_returned"
                    ELSE "catch_returned"]
    /\ UNCHANGED <<connectedBy, chipOverride>>
    /\ ConnectFrame

CleanupReturned(c) ==
    /\ calls[c].pc = "cleanup_returned"
    /\ TryBlock(calls, c)
    /\ UNCHANGED <<connectedBy, chipOverride>>
    /\ ConnectFrame

RequestPortResolved(c) ==
    /\ calls[c].pc = "requestPort"
    /\ calls' = [calls EXCEPT ![c].pc = "getPorts"]
    /\ UNCHANGED <<transport, espStub, isConnected, connectedBy, chipOverride>>
    /\ ConnectFrame

RequestPortRejected(c) ==
    /\ calls[c].pc = "requestPort"
    /\ Catch(c, "NoPortSelected")
    /\ UNCHANGED <<connectedBy, chipOverride>>
    /\ ConnectFrame

GetPortsResolved(c) ==
    /\ calls[c].pc = "getPorts"
    /\ calls' = [calls EXCEPT ![c].pc = "import"]
    /\ UNCHANGED <<transport, espStub, isConnected, connectedBy, chipOverride>>
    /\ ConnectFrame

\* this.transport = new Transport(port, true); this.espStub = new ESPLoader(..)
ImportResolved(c) ==
    /\ calls[c].pc = "import"
    /\ transport' = <<c>>
    /\ espStub' = <<c>>
    /\ calls' = [calls EXCEPT ![c].pc = "main"]
    /\ UNCHANGED <<isConnected, connectedBy, chipOverride>>
    /\ ConnectFrame

ImportRejected(c) ==
    /\ calls[c].pc = "import"
    /\ Catch(c, "ImportFailed")
    /\ UNCHANGED <<connectedBy, chipOverride>>
    /\ ConnectFrame

\* espStub.main() won the race: the chip is known.  this.espStub.chip is
\* read next, a TypeError when this.espStub is null; then the chip check.
MainResolved(c, chipMismatch, devSkipChipCheck) ==
    /\ calls[c].pc = "main"
    /\ devSkipChipCheck => ~calls[c].port
    /\ IF espStub = <<>>
       THEN Catch(c, "TypeError") /\ UNCHANGED connectedBy
       ELSE IF chipMismatch /\ ~devSkipChipCheck /\ ~chipOverride
       THEN /\ calls' = [calls EXCEPT ![c].pc = "dialog"]
            /\ UNCHANGED <<transport, espStub, isConnected, connectedBy>>
       ELSE Connected(c)
    /\ UNCHANGED chipOverride
    /\ ConnectFrame

MainRejected(c) ==
    /\ calls[c].pc = "main"
    /\ Catch(c, "EsptoolFailure")
    /\ UNCHANGED <<connectedBy, chipOverride>>
    /\ ConnectFrame

\* The 15 second timer won the race.
TimeoutFired(c) ==
    /\ calls[c].pc = "main"
    /\ Catch(c, "Timeout")
    /\ UNCHANGED <<connectedBy, chipOverride>>
    /\ ConnectFrame

\* A button of the chip mismatch dialog is clicked.
DialogChoice(c, userChoice) ==
    /\ calls[c].pc = "dialog"
    /\ IF userChoice = "cancel"
       THEN /\ DisconnectFrom(calls, c, "cancel_closing", "cancel_returned")
            /\ UNCHANGED <<connectedBy, chipOverride>>
       ELSE /\ Connected(c)
            /\ chipOverride' = (chipOverride \/ userChoice = "always")
    /\ ConnectFrame

\* throw chipError, after the disconnect() of the cancel branch.
CancelReturned(c) ==
    /\ calls[c].pc = "cancel_returned"
    /\ Catch(c, "ChipMismatch")
    /\ UNCHANGED <<connectedBy, chipOverride>>
    /\ ConnectFrame

\* if (!error.isChipMismatch) this.handleConnectionError(error); throw error
CatchReturned(c) ==
    /\ calls[c].pc = "catch_returned"
    /\ calls' = [calls EXCEPT
                    ![c].pc = "rejected",
                    ![c].handled = IF calls[c].error = "ChipMismatch" THEN @ ELSE @ + 1,
                    ![c].leftTransport = transport,
                    ![c].leftEspStub = espStub,
                    ![c].leftConnected = isConnected]
    /\ UNCHANGED <<transport, espStub, isConnected, connectedBy, chipOverride>>
    /\ ConnectFrame

\* The caller after connect() resolved: handleConnect and
\* attemptAutoReconnect hide the Connect button and enable the other two.
CallerAfterResolve(c) ==
    /\ calls[c].pc = "resolved"
    /\ calls' = [calls EXCEPT ![c].pc = "done"]
    /\ btnConnect' = [btnConnect EXCEPT !.display = "none"]
    /\ btnFlash' = [disabled |-> FALSE, display |-> "block"]
    /\ btnWriteConfig' = [btnWriteConfig EXCEPT !.disabled = FALSE]
    /\ UNCHANGED <<transport, espStub, isConnected, connectedBy, chipOverride,
                   extDisconnect, flashVars, nvsVars, crcVars>>

\* The caller after connect() rejected: attemptAutoReconnect enables the
\* Connect button, handleConnect only reports to the console.
CallerAfterReject(c) ==
    /\ calls[c].pc = "rejected"
    /\ calls' = [calls EXCEPT ![c].pc = "done"]
    /\ btnConnect' = IF calls[c].port THEN [btnConnect EXCEPT !.disabled = FALSE]
                     ELSE btnConnect
    /\ UNCHANGED <<transport, espStub, isConnected, connectedBy, chipOverride,
                   extDisconnect, buttonVars, flashVars, nvsVars, crcVars>>

\* disconnect() called from outside connect().
DisconnectCall ==
    /\ extDisconnect = "idle"
    /\ IF transport # <<>>
       THEN extDisconnect' = "closing" /\ UNCHANGED <<transport, espStub, isConnected>>
       ELSE extDisconnect' = "done" /\ ResetFields
    /\ UNCHANGED <<calls, connectedBy, chipOverride, btnConnect, buttonVars,
                   flashVars, nvsVars, crcVars>>

DisconnectSettled ==
    /\ extDisconnect = "closing"
    /\ extDisconnect' = "done"
    /\ ResetFields
    /\ UNCHANGED <<calls, connectedBy, chipOverride, btnConnect, buttonVars,
                   flashVars, nvsVars, crcVars>>

ConnectNext ==
    \/ \E c \in CallIds, port \in BOOLEAN : ConnectCall(c, port)
    \/ \E c \in CallIds : DisconnectFinish(c)
    \/ \E c \in CallIds : CleanupReturned(c)
    \/ \E c \in CallIds : RequestPortResolved(c)
    \/ \E c \in CallIds : RequestPortRejected(c)
    \/ \E c \in CallIds : GetPortsResolved(c)
    \/ \E c \in CallIds : ImportResolved(c)
    \/ \E c \in CallIds : ImportRejected(c)
    \/ \E c \in CallIds, chipMismatch \in BOOLEAN, devSkipChipCheck \in BOOLEAN :
          MainResolved(c, chipMismatch, devSkipChipCheck)
    \/ \E c \in CallIds : MainRejected(c)
    \/ \E c \in CallIds : TimeoutFired(c)
    \/ \E c \in CallIds, userChoice \in {"cancel", "once", "always"} :
          DialogChoice(c, userChoice)
    \/ \E c \in CallIds : CancelReturned(c)
    \/ \E c \in CallIds : CatchReturned(c)
    \/ \E c \in CallIds : CallerAfterResolve(c)
    \/ \E c \in CallIds : CallerAfterReject(c)
    \/ DisconnectCall
    \/ DisconnectSettled

ConnectSpec == ConnectInit /\ [][ConnectNext]_vars

-----------------------------------------------------------------------------
(* FlasherApp.handleFlash with FirmwareFlasher.flash / generateAndAddNVS,  *)
(* and FlasherApp.handleWriteConfig, on a connected device.  A handler     *)
(* runs from one await to the next in one step.  A writeFlash call is in   *)
(* progress from the call until the device settles it.                     *)

MaxClicks == 2          \* clicks on the two buttons together

\* The value of a hexadecimal digit, -1 for any other character.
HexDigit(c) ==
    IF c \in 48..57 THEN c - 48
    ELSE IF c \in 97..102 THEN c - 87
    ELSE IF c \in 65..70 THEN c - 55
    ELSE -1

\* The value of the hexadecimal digits of s from position i on, up to the
\* first other character, after the value acc of the digits before.
RECURSIVE HexValue(_, _, _)
HexValue(s, i, acc) ==
    IF i > Len(s) \/ HexDigit(s[i]) < 0 THEN acc
    ELSE HexValue(s, i + 1, 16 * acc + HexDigit(s[i]))

HasHexPrefix(s) == Len(s) >= 2 /\ s[1] = 48 /\ s[2] \in {120, 88}

\* parseInt(s, 16) of a string without sign or leading blanks: an optional
\* 0x, then the digits; -1 stands for NaN (no digit).
parseInt16(s) ==
    IF HasHexPrefix(s)
    THEN (IF Len(s) < 3 \/ HexDigit(s[3]) < 0 THEN -1 ELSE HexValue(s, 3, 0))
    ELSE (IF Len(s) < 1 \/ HexDigit(s[1]) < 0 THEN -1 ELSE HexValue(s, 1, 0))

\* for (...) binary += String.fromCharCode(bytes[i]): one code unit per
\* byte, of the byte's value.
BinaryString(bytes) == [i \in 1..Len(bytes) |-> bytes[i]]

\* nvsData: the namespace of the project (default 'config') with the
\* fields whose value is neither undefined nor ''.
NvsNamespace(project) ==
    IF project.nvsPartition[1].namespace = <<>> THEN Name_config
    ELSE project.nvsPartition[1].namespace

NvsData(project, cfg) ==
    <<NS(NvsNamespace(project),
         SelectSeq(cfg, LAMBDA f : f.value # StringValue(<<>>)))>>

\* The catch clause of generateAndAddNVS: two warnings, fileArray as it was.
NvsFailed(fileArray) == [fileArray |-> fileArray, warnings |-> 2, threw |-> TRUE]

\* A faulty generateAndAddNVS that pushes an image whatever generate did.
AddNvsAlways(fileArray, r, offset) ==
    [fileArray |-> Append(fileArray, [data |-> BinaryString(r.binary), address |-> offset]),
     warnings |-> 0, threw |-> FALSE]

\* fileArray.push({ data: nvsBinary, address: nvsOffset }) when generate
\* returned r without throwing.
AddNvs(fileArray, r, offset) ==
    IF r.error # "none" THEN NvsFailed(fileArray)
    ELSE [fileArray |-> Append(fileArray,
                               [data |-> BinaryString(r.binary), address |-> offset]),
          warnings |-> 0, threw |-> FALSE]

\* generateAndAddNVS(project, fileArray): new NVSGenerator() throws a
\* ReferenceError when the global is not defined.
generateAndAddNVS(project, cfg, loaded, fileArray) ==
    IF ~loaded THEN NvsFailed(fileArray)
    ELSE AddNvs(fileArray,
                generate(NvsData(project, cfg), parseInt16(project.nvsPartition[1].size)),
                parseInt16(project.nvsPartition[1].offset))

\* const fileArray = [{ data: firmwareBinary, address: 0x0 }]
FirmwareOnly(firmware) == <<[data |-> BinaryString(firmware), address |-> 0]>>

\* espStub.writeFlash({ fileArray, ... }) is called.
WriteFlashOp(by, fileArray) == [by |-> by, fileArray |-> fileArray, status |-> "running"]

\* Inputs: projects, configurations and firmware images.
Hex_0x1000 == <<48, 120, 49, 48, 48, 48>>
Hex_0x9000 == <<48, 120, 57, 48, 48, 48>>
Key_ratio == <<114, 97, 116, 105, 111>>

FirmwareImages == {<<233, 2, 0>>}
CustomFiles == {<<>>, <<<<233, 7>>>>}

NvsPartitions ==
    {<<>>,
     <<[namespace |-> <<>>, size |-> Hex_0x1000, offset |-> Hex_0x9000]>>,
     <<[namespace |-> Name_wifi, size |-> Hex_0x1000, offset |-> Hex_0x9000]>>}

Projects ==
    {[configSections |-> cs, nvsPartition |-> np, release |-> fw] :
        cs \in BOOLEAN, np \in NvsPartitions, fw \in FirmwareImages}

Configs ==
    {<<KV(Key_led, IntegerValue(JsInt(5)))>>,
     <<KV(Key_ssid, StringValue(Str_HomeWiFi)), KV(Key_url, StringValue(<<>>)),
       KV(Key_port, IntegerValue(JsInt(1883)))>>,
     <<KV(Key_ratio, FloatValue)>>,
     <<KV(Key_pad, XString(PadLength(ENTRIES_PER_PAGE)))>>}

\* The page after a successful handleConnect: the device is connected, the
\* Connect button hidden, the other two enabled.
FlashInit ==
    /\ transport = <<1>>
    /\ espStub = <<1>>
    /\ isConnected = TRUE
    /\ calls = [c \in CallIds |-> IF c = 1 THEN [NoCall EXCEPT !.pc = "done"] ELSE NoCall]
    /\ connectedBy = 1
    /\ chipOverride = FALSE
    /\ extDisconnect = "idle"
    /\ btnConnect = [disabled |-> FALSE, display |-> "none"]
    /\ btnFlash = [disabled |-> FALSE, display |-> "block"]
    /\ btnWriteConfig = [disabled |-> FALSE, display |-> "block"]
    /\ selectedProject \in Projects
    /\ config \in Configs
    /\ firmwareSource \in {"release", "custom"}
    /\ customFile \in CustomFiles
    /\ firmwareSource = "release" => customFile = <<>>
    /\ generatorLoaded \in BOOLEAN
    /\ flashCall = NoFlashCall
    /\ configCall = NoConfigCall
    /\ writeFlashOps = <<>>
    /\ clicks = 0
    /\ NvsIdle
    /\ CrcIdle

\* What no step of the two handlers changes.
FlashFrame ==
    UNCHANGED <<selectedProject, config, firmwareSource, customFile, generatorLoaded,
                connVars, nvsVars, crcVars>>

\* flash() throws: handleFlashError(error, project); throw error
FlashThrows(kind) ==
    flashCall' = [flashCall EXCEPT !.pc = "threw", !.result = "rejected", !.error = kind]

\* A click on Flash Firmware: handleFlash up to the first await of flash().
ClickFlash ==
    /\ ~btnFlash.disabled
    /\ btnFlash.display # "none"
    /\ flashCall.pc \in {"idle", "done"}
    /\ clicks < MaxClicks
    /\ clicks' = clicks + 1
    /\ IF espStub = <<>> \/ (firmwareSource = "custom" /\ customFile = <<>>)
       THEN /\ btnFlash' = [btnFlash EXCEPT !.disabled = FALSE]
            /\ UNCHANGED flashCall
       ELSE /\ btnFlash' = [btnFlash EXCEPT !.disabled = TRUE]
            /\ flashCall' = [NoFlashCall EXCEPT
                               !.pc = IF firmwareSource = "custom" THEN "arrayBuffer"
                                      ELSE "fetch"]
    /\ UNCHANGED <<btnWriteConfig, configCall, writeFlashOps>>
    /\ FlashFrame

\* fetch(project.firmwareUrl) settles: a response that is ok, one that is
\* not, or a rejection.
FetchSettled(outcome) ==
    /\ flashCall.pc = "fetch"
    /\ IF outcome = "ok" THEN flashCall' = [flashCall EXCEPT !.pc = "arrayBuffer"]
       ELSE FlashThrows("download")
    /\ UNCHANGED <<buttonVars, configCall, writeFlashOps, clicks>>
    /\ FlashFrame

\* The firmware bytes are there: fileArray is built and, for a project
\* with configSections and nvsPartition, generateAndAddNVS runs; without,
\* writeFlash is called at once.
ArrayBufferResolved ==
    /\ flashCall.pc = "arrayBuffer"
    /\ IF selectedProject.configSections /\ selectedProject.nvsPartition # <<>>
       THEN /\ flashCall' =
                 [flashCall EXCEPT
                    !.pc = "nvs_returned",
                    !.firmware = IF firmwareSource = "custom" THEN customFile[1]
                                 ELSE selectedProject.release,
                    !.fileArray = generateAndAddNVS(selectedProject, config, generatorLoaded,
                                      FirmwareOnly(IF firmwareSource = "custom"
                                                   THEN customFile[1]
                                                   ELSE selectedProject.release)).fileArray,
                    !.warnings = generateAndAddNVS(selectedProject, config, generatorLoaded,
                                      <<>>).warnings,
                    !.nvs = IF generateAndAddNVS(selectedProject, config, generatorLoaded,
                                                 <<>>).threw
                            THEN "threw" ELSE "added"]
            /\ UNCHANGED writeFlashOps
       ELSE /\ flashCall' =
                 [flashCall EXCEPT
                    !.pc = "writing",
                    !.firmware = IF firmwareSource = "custom" THEN customFile[1]
                                 ELSE selectedProject.release,
                    !.fileArray = FirmwareOnly(IF firmwareSource = "custom"
                                               THEN customFile[1]
                                               ELSE selectedProject.release),
                    !.nvs = "skipped",
                    !.writes = @ + 1]
            /\ writeFlashOps' =
                 Append(writeFlashOps,
                        WriteFlashOp("flash",
                                     FirmwareOnly(IF firmwareSource = "custom"
                                                  THEN customFile[1]
                                                  ELSE selectedProject.release)))
    /\ UNCHANGED <<buttonVars, configCall, clicks>>
    /\ FlashFrame

ArrayBufferRejected ==
    /\ flashCall.pc = "arrayBuffer"
    /\ FlashThrows("download")
    /\ UNCHANGED <<buttonVars, configCall, writeFlashOps, clicks>>
    /\ FlashFrame

\* After await this.generateAndAddNVS(...): espStub.writeFlash is called.
NvsReturned ==
    /\ flashCall.pc = "nvs_returned"
    /\ flashCall' = [flashCall EXCEPT !.pc = "writing", !.writes = @ + 1]
    /\ writeFlashOps' = Append(writeFlashOps, WriteFlashOp("flash", flashCall.fileArray))
    /\ UNCHANGED <<buttonVars, configCall, clicks>>
    /\ FlashFrame

\* The device settles the writeFlash call i; its caller goes on: flash
\* returns true or throws, handleWriteConfig hides its button or enables it.
WriteFlashSettled(i, ok) ==
    /\ writeFlashOps[i].status = "running"
    /\ writeFlashOps' = [writeFlashOps EXCEPT ![i].status = IF ok THEN "ok" ELSE "failed"]
    /\ IF writeFlashOps[i].by = "flash"
       THEN /\ IF ok THEN flashCall' = [flashCall EXCEPT !.pc = "returned", !.result = "true"]
               ELSE FlashThrows("write")
            /\ UNCHANGED <<configCall, btnWriteConfig>>
       ELSE /\ configCall' = [pc |-> "idle", error |-> IF ok THEN "none" ELSE "write"]
            /\ btnWriteConfig' = IF ok THEN [btnWriteConfig EXCEPT !.display = "none"]
                                 ELSE [btnWriteConfig EXCEPT !.disabled = FALSE]
            /\ UNCHANGED flashCall
    /\ UNCHANGED <<btnFlash, clicks>>
    /\ FlashFrame

\* handleFlash after flash() resolved: the Flash button is hidden.
FlashResolved ==
    /\ flashCall.pc = "returned"
    /\ flashCall' = [flashCall EXCEPT !.pc = "done"]
    /\ btnFlash' = [btnFlash EXCEPT !.display = "none"]
    /\ UNCHANGED <<btnWriteConfig, configCall, writeFlashOps, clicks>>
    /\ FlashFrame

\* handleFlash after flash() rejected: the Flash button is enabled again.
FlashRejected ==
    /\ flashCall.pc = "threw"
    /\ flashCall' = [flashCall EXCEPT !.pc = "done"]
    /\ btnFlash' = [btnFlash EXCEPT !.disabled = FALSE]
    /\ UNCHANGED <<btnWriteConfig, configCall, writeFlashOps, clicks>>
    /\ FlashFrame

\* The image handleWriteConfig generates, or the error it catches.
ConfigImage(project, cfg, loaded) ==
    IF ~project.configSections THEN [error |-> "TypeError", binary |-> <<>>]
    ELSE IF ~loaded THEN [error |-> "ReferenceError", binary |-> <<>>]
    ELSE generate(NvsData(project, cfg), parseInt16(project.nvsPartition[1].size))

\* A click on Write Config: handleWriteConfig up to await writeFlash.
ClickWriteConfig ==
    /\ ~btnWriteConfig.disabled
    /\ btnWriteConfig.display # "none"
    /\ clicks < MaxClicks
    /\ clicks' = clicks + 1
    /\ IF ~isConnected \/ selectedProject.nvsPartition = <<>>
       THEN UNCHANGED <<btnWriteConfig, configCall, writeFlashOps>>
       ELSE IF espStub = <<>>
       THEN /\ btnWriteConfig' = [btnWriteConfig EXCEPT !.disabled = FALSE]
            /\ configCall' = [pc |-> "idle", error |-> "NotConnected"]
            /\ UNCHANGED writeFlashOps
       ELSE IF ConfigImage(selectedProject, config, generatorLoaded).error # "none"
       THEN /\ btnWriteConfig' = [btnWriteConfig EXCEPT !.disabled = FALSE]
            /\ configCall' = [pc |-> "idle",
                              error |-> ConfigImage(selectedProject, config,
                                                    generatorLoaded).error]
            /\ UNCHANGED writeFlashOps
       ELSE /\ btnWriteConfig' = [btnWriteConfig EXCEPT !.disabled = TRUE]
            /\ configCall' = [pc |-> "writing", error |-> "none"]
            /\ writeFlashOps' =
                 Append(writeFlashOps,
                        WriteFlashOp("config",
                            <<[data |-> BinaryString(
                                          ConfigImage(selectedProject, config,
                                                      generatorLoaded).binary),
                               address |-> parseInt16(selectedProject.nvsPartition[1].offset)]>>))
    /\ UNCHANGED <<btnFlash, flashCall>>
    /\ FlashFrame

FlashNext ==
    \/ ClickFlash
    \/ \E outcome \in {"ok", "notOk", "rejected"} : FetchSettled(outcome)
    \/ ArrayBufferResolved
    \/ ArrayBufferRejected
    \/ NvsReturned
    \/ \E i \in 1..Len(writeFlashOps), ok \in BOOLEAN : WriteFlashSettled(i, ok)
    \/ FlashResolved
    \/ FlashRejected
    \/ ClickWriteConfig

FlashSpec == FlashInit /\ [][FlashNext]_vars


-----------------------------------------------------------------------------
(* Vocabulary of the claims.                                               *)

NumPages == partitionSize \div PAGE_SIZE

\* generate returned an image (it did not throw).
Returned == pc # "start" /\ result.error = "none"

\* Every value of the input has an entry (createEntry does not reject it).
Encodable(d) ==
    \A i \in 1..Len(d) : \A j \in 1..Len(d[i].entries) :
        d[i].entries[j].value.t = "string"
        \/ (d[i].entries[j].value.t = "number" /\ d[i].entries[j].value.integer)

SpanOf(e) == createEntry(0, e.key, e.value).span

\* The spans of the entry stream of the input, in order: one definition
\* slot per namespace with keys, then the span of each of its entries.
RECURSIVE StreamSpans(_, _, _)
StreamSpans(d, lo, hi) ==
    IF lo > hi THEN <<>>
    ELSE IF lo = hi
    THEN (IF Len(d[lo].entries) = 0 THEN <<>>
          ELSE <<1>> \o [j \in 1..Len(d[lo].entries) |-> SpanOf(d[lo].entries[j])])
    ELSE StreamSpans(d, lo, (lo + hi) \div 2)
         \o StreamSpans(d, ((lo + hi) \div 2) + 1, hi)

RECURSIVE SumRange(_, _, _)
SumRange(q, lo, hi) ==
    IF lo > hi THEN 0
    ELSE IF lo = hi THEN q[lo]
    ELSE SumRange(q, lo, (lo + hi) \div 2) + SumRange(q, ((lo + hi) \div 2) + 1, hi)

SlotsRequired(d) == SumRange(StreamSpans(d, 1, Len(d)), 1, Len(StreamSpans(d, 1, Len(d))))

\* The entry slots 1..125 of a page.
SlotsPerPage == ENTRIES_PER_PAGE - 1

\* Placement of a span k after `used` slots, SlotsPerPage slots to a page,
\* no span across a page boundary: the slots used after it (Unplaceable,
\* more than any partition of the model holds, when k exceeds a page).
Unplaceable == SlotsPerPage * (MaxPages + 2)
PlaceSpan(used, k) ==
    IF used >= Unplaceable \/ k > SlotsPerPage THEN Unplaceable
    ELSE IF k <= SlotsPerPage - (used % SlotsPerPage) THEN used + k
    ELSE used - (used % SlotsPerPage) + SlotsPerPage + k

RECURSIVE PlaceRange(_, _, _, _)
PlaceRange(used, q, lo, hi) ==
    IF lo > hi THEN used
    ELSE IF lo = hi THEN PlaceSpan(used, q[lo])
    ELSE PlaceRange(PlaceRange(used, q, lo, (lo + hi) \div 2),
                    q, ((lo + hi) \div 2) + 1, hi)

\* The entries of d can be placed in n pages.
Fits(d, n) ==
    PlaceRange(0, StreamSpans(d, 1, Len(d)), 1, Len(StreamSpans(d, 1, Len(d))))
        <= SlotsPerPage * n

\* The bytes of slot `slot` of page `page` of the returned image.
SlotBytes(page, slot) ==
    SubSeq(result.binary, EntryOffset(page, slot) + 1, EntryOffset(page, slot) + 32)

\* The CRC32 of bytes 0-3 and 8-31 of a 32-byte slot, little-endian.
ExpectedEntryCrc(sb) == LE32(calculateCRC32(SubSeq(sb, 1, 4) \o SubSeq(sb, 9, 32)))

CrcHolds(sb) == SubSeq(sb, 5, 8) = ExpectedEntryCrc(sb)

\* The pages that hold a bitmap or a byte of an entry.
UsedPages ==
    {p \in 0..(NumPages - 1) :
        \/ p <= result.pageIndex
        \/ \E k \in 1..Len(result.writes) :
              /\ EntryOffset(result.writes[k].page, result.writes[k].slot)
                    < (p + 1) * PAGE_SIZE
              /\ EntryOffset(result.writes[k].page, result.writes[k].slot)
                    + ENTRY_SIZE * result.writes[k].span > p * PAGE_SIZE}

-----------------------------------------------------------------------------
(* Claims.                                                                 *)

\* C1: round trip - for every input for which generate returns an image at
\* a size (a multiple of 4096) that can hold it, parse of the image is the
\* input: same namespaces, same keys in the same order, same values.
C1_RoundTrip ==
    (pc = "parsed" /\ Fits(data, NumPages))
        => (parsed.status = "ok" /\ parsed.data = data)

\* C2: in every returned image no entry's span crosses a page boundary: the
\* k slots of an entry written at slot s of page p all lie inside page p.
C2_NoSpanCrossesPage ==
    Returned =>
        \A k \in 1..Len(result.writes) :
            EntryOffset(result.writes[k].page, result.writes[k].slot)
                + ENTRY_SIZE * result.writes[k].span
            <= (result.writes[k].page + 1) * PAGE_SIZE

\* C3: generate fails with the partition-too-small error whenever the entry
\* stream of the input needs more than 125 * N slots, N the number of pages.
C3_TooSmallAbove125N ==
    (pc # "start" /\ Encodable(data) /\ SlotsRequired(data) > SlotsPerPage * NumPages)
        => result.error = "PartitionTooSmall"

\* C4: generate returns an image, raising no error, whenever the entries can
\* be placed in the N pages with at most 125 slots a page and no span across
\* a page boundary (filling the last page exactly is accepted).
C4_AcceptsWhatFits ==
    (pc # "start" /\ Encodable(data) /\ Fits(data, NumPages))
        => result.error = "none"

\* C5: in every returned image the slots of the entries of a page have
\* indices in 1..125: nothing is written at slot index 126 or beyond.
C5_SlotsWithin125 ==
    Returned =>
        \A k \in 1..Len(result.writes) :
            /\ result.writes[k].slot >= 1
            /\ result.writes[k].slot + result.writes[k].span - 1 <= SlotsPerPage

\* C6: generate of an input with a key longer than 15 bytes fails with
\* KeyTooLong and returns no image.
C6_LongKeyRejected ==
    (pc # "start" /\ \E i \in 1..Len(data) : \E j \in 1..Len(data[i].entries) :
                        Len(TextEncode(data[i].entries[j].key)) > 15)
        => result.error = "KeyTooLong"

\* C7 as stated: in every returned image, every slot with index >= 1 of a
\* used page whose byte 0 is not 0xFF holds at bytes 4-7 the CRC32 of its
\* bytes 0-3 and 8-31.
C7_EverySlotHasCrc ==
    (pc = "generated" /\ result.error = "none") =>
        \A p \in UsedPages : \A i \in 1..(ENTRIES_PER_PAGE - 1) :
            SlotBytes(p, i)[1] # 255 => CrcHolds(SlotBytes(p, i))

\* C7 amended: in every returned image, the first slot of every entry
\* generate wrote (the slot writeEntry was called at) holds at bytes 4-7,
\* little-endian, the CRC32 of its bytes 0-3 and 8-31.
C7_EntrySlotsHaveCrc ==
    (pc = "generated" /\ result.error = "none") =>
        \A k \in 1..Len(result.writes) :
            CrcHolds(SlotBytes(result.writes[k].page, result.writes[k].slot))

\* C7 witness: an image was returned that holds a string entry, whose
\* continuation slots follow its first slot.
C7_Witness ==
    /\ pc = "generated" /\ result.error = "none"
    /\ \E k \in 1..Len(result.writes) :
          result.writes[k].type = TYPE_STR /\ result.writes[k].span >= 2

\* The header of page p of the returned image.
PageHeader(p) == SubSeq(result.binary, p * PAGE_SIZE + 1, p * PAGE_SIZE + 32)

\* C8: in every returned image every used page has state ACTIVE, sequence
\* number = page index, version 0xFFFFFFFF, reserved bytes 12-27 all 0xFF,
\* bytes 28-31 = CRC32 of bytes 0-27, and slot 0 beginning 0xAA 0xAA.
C8_PageInvariants ==
    (pc = "generated" /\ result.error = "none") =>
        \A p \in UsedPages :
            /\ SubSeq(PageHeader(p), 1, 4) = LE32(PAGE_STATE_ACTIVE)
            /\ SubSeq(PageHeader(p), 5, 8) = LE32(JsInt(p))
            /\ SubSeq(PageHeader(p), 9, 12) = <<255, 255, 255, 255>>
            /\ \A i \in 13..28 : PageHeader(p)[i] = 255
            /\ SubSeq(PageHeader(p), 29, 32)
                  = LE32(calculateCRC32(SubSeq(PageHeader(p), 1, 28)))
            /\ SubSeq(SlotBytes(p, 0), 1, 2) = <<170, 170>>

\* The entries of the encoded stream, as they stand in the image: for the
\* k-th entry written, its namespace byte, type, span, key field, byte 24.
StreamEntry(k) ==
    [ns |-> SlotBytes(result.writes[k].page, result.writes[k].slot)[1],
     type |-> SlotBytes(result.writes[k].page, result.writes[k].slot)[2],
     span |-> SlotBytes(result.writes[k].page, result.writes[k].slot)[3],
     key |-> SubSeq(SlotBytes(result.writes[k].page, result.writes[k].slot), 9, 24),
     index |-> SlotBytes(result.writes[k].page, result.writes[k].slot)[25]]

IsDefinition(e) == e.ns = 0 /\ e.type = 1

\* The positions in the stream of the namespace definitions.
DefinitionPositions ==
    SelectSeq([k \in 1..Len(result.writes) |-> k],
              LAMBDA k : IsDefinition(StreamEntry(k)))

\* The namespaces of the input that have keys, in insertion order.
NamespacesWithKeys == SelectSeq(data, LAMBDA n : Len(n.entries) > 0)

\* C9: the stream holds exactly one definition (namespace byte 0, type 1,
\* span 1) per input namespace with keys, in insertion order with byte 24 =
\* 1, 2, 3, ...; every data entry carries the index of the definition of
\* its namespace, which is the last definition before it.
C9_NamespaceIndexing ==
    (pc = "generated" /\ result.error = "none") =>
        /\ Len(DefinitionPositions) = Len(NamespacesWithKeys)
        /\ \A n \in 1..Len(DefinitionPositions) :
              /\ StreamEntry(DefinitionPositions[n]).index = n
              /\ StreamEntry(DefinitionPositions[n]).span = 1
              /\ StreamEntry(DefinitionPositions[n]).key
                    = ZeroPadded(KeyBytes(NamespacesWithKeys[n].name), 16)
              /\ \A k \in (DefinitionPositions[n] + 1)..
                          (IF n < Len(DefinitionPositions)
                           THEN DefinitionPositions[n + 1] - 1
                           ELSE Len(result.writes)) :
                    StreamEntry(k).ns = n
        /\ (Len(result.writes) > 0 => IsDefinition(StreamEntry(1)))

\* C10: the returned buffer has exactly the requested length, and every
\* byte outside the sealed pages is 0xFF.
C10_SizeAndErasedTail ==
    (pc = "generated" /\ result.error = "none") =>
        /\ Len(result.binary) = partitionSize
        /\ \A o \in ((result.pageIndex + 1) * PAGE_SIZE + 1)..Len(result.binary) :
              result.binary[o] = 255


\* The entry stream of the input, in order: for each namespace with keys
\* its definition, then its keys with their values.
RECURSIVE StreamItems(_, _, _)
StreamItems(d, lo, hi) ==
    IF lo > hi THEN <<>>
    ELSE IF lo = hi
    THEN (IF Len(d[lo].entries) = 0 THEN <<>>
          ELSE <<[def |-> TRUE, key |-> d[lo].name]>>
               \o [j \in 1..Len(d[lo].entries) |->
                     [def |-> FALSE, key |-> d[lo].entries[j].key,
                      value |-> d[lo].entries[j].value]])
    ELSE StreamItems(d, lo, (lo + hi) \div 2)
         \o StreamItems(d, ((lo + hi) \div 2) + 1, hi)

\* Offset in the image of the k-th entry generate wrote.
WriteOffset(k) == EntryOffset(result.writes[k].page, result.writes[k].slot)

AllErased(b, from, to) == \A i \in from..to : b[i] = 255

\* The layout of a string of UTF-8 bytes u at offset off of image b.
StringLaidOut(b, off, u) ==
    /\ b[off + 2] = 33
    /\ b[off + 3] = 1 + ((Len(u) + 1 + 31) \div 32)
    /\ SubSeq(b, off + 25, off + 26) = <<(Len(u) + 1) % 256, (Len(u) + 1) \div 256>>
    /\ AllErased(b, off + 27, off + 32)
    /\ SubSeq(b, off + 33, off + 33 + Len(u)) = u \o <<0>>
    /\ AllErased(b, off + 34 + Len(u), off + 32 * (1 + ((Len(u) + 1 + 31) \div 32)))

StringsLaidOut(items) ==
    \A k \in 1..Len(result.writes) :
        (~items[k].def /\ items[k].value.t = "string")
            => StringLaidOut(result.binary, WriteOffset(k), TextEncode(items[k].value.s))

\* C11: for every string value of n UTF-8 bytes the returned image holds an
\* entry of type 0x21 with span byte 1 + ceil((n+1)/32), bytes 24-25 = n+1
\* little-endian, bytes 26-31 = 0xFF, and the n bytes followed by 0x00 in
\* the next span-1 slots, the rest of the last slot being 0xFF.
C11_StringLayout ==
    (pc = "generated" /\ result.error = "none")
        => StringsLaidOut(StreamItems(data, 1, Len(data)))


\* The layout of an unsigned integer v (a 32-bit word) at offset off of b.
UnsignedLaidOut(b, off, v) ==
    /\ b[off + 3] = 1
    /\ IF v.hi = 0 /\ v.lo <= 255
       THEN /\ b[off + 2] = 1
            /\ b[off + 25] = v.lo
            /\ AllErased(b, off + 26, off + 32)
       ELSE IF v.hi = 0
       THEN /\ b[off + 2] = 2
            /\ SubSeq(b, off + 25, off + 26) = <<v.lo % 256, v.lo \div 256>>
            /\ AllErased(b, off + 27, off + 32)
       ELSE /\ b[off + 2] = 4
            /\ SubSeq(b, off + 25, off + 28)
                  = <<v.lo % 256, v.lo \div 256, v.hi % 256, v.hi \div 256>>
            /\ AllErased(b, off + 29, off + 32)

IsUnsigned(value) ==
    value.t = "number" /\ value.integer /\ value.n.hi >= 0 /\ value.n.hi <= 65535

UnsignedsLaidOut(items) ==
    \A k \in 1..Len(result.writes) :
        (~items[k].def /\ IsUnsigned(items[k].value))
            => UnsignedLaidOut(result.binary, WriteOffset(k), items[k].value.n)

\* C12: for every integer v of the input the returned image holds a span-1
\* entry of type 0x01 with 1 payload byte when 0 <= v <= 255, type 0x02 with
\* 2 little-endian bytes when 256 <= v <= 65535, type 0x04 with 4
\* little-endian bytes when 65536 <= v <= 4294967295; the payload starts at
\* offset 24 and the bytes after it up to offset 31 are 0xFF.
C12_UnsignedLadder ==
    (pc = "generated" /\ result.error = "none")
        => UnsignedsLaidOut(StreamItems(data, 1, Len(data)))


IsNegative(value) == value.t = "number" /\ value.integer /\ value.n.hi < 0

\* The narrowest signed type that holds the negative integer v.
NarrowestSigned(v) ==
    IF v.hi = -1 /\ v.lo >= 65536 - 128 THEN 17
    ELSE IF v.hi = -1 /\ v.lo >= 65536 - 32768 THEN 18
    ELSE 20

\* The value parse returned for the key of item it, if any.
ParsedHas(name, key, value) ==
    \E i \in 1..Len(parsed.data) :
        /\ parsed.data[i].name = name
        /\ \E j \in 1..Len(parsed.data[i].entries) :
              parsed.data[i].entries[j] = KV(key, value)

\* C13: generate maps every negative integer to the narrowest fitting signed
\* type (I8 0x11, I16 0x12, I32 0x14), and parse of the image returns the
\* same negative integer.
C13_SignedIntegers ==
    (pc # "start" /\ result.error = "none") =>
        \A i \in 1..Len(data) : \A j \in 1..Len(data[i].entries) :
            IsNegative(data[i].entries[j].value) =>
                /\ \E k \in 1..Len(result.writes) :
                      /\ result.writes[k].namespace = i
                      /\ result.binary[WriteOffset(k) + 2]
                            = NarrowestSigned(data[i].entries[j].value.n)
                /\ pc = "parsed" =>
                      ParsedHas(data[i].name, data[i].entries[j].key,
                                data[i].entries[j].value)


\* The layout of a byte array u as a BLOB entry at offset off of b.
BlobLaidOut(b, off, u) ==
    /\ b[off + 2] = 65
    /\ b[off + 3] = 1 + ((Len(u) + 31) \div 32)
    /\ SubSeq(b, off + 25, off + 26) = <<Len(u) % 256, Len(u) \div 256>>
    /\ SubSeq(b, off + 33, off + 32 + Len(u)) = u

BlobsLaidOut(items) ==
    /\ Len(result.writes) = Len(items)
    /\ \A k \in 1..Len(items) :
          (~items[k].def /\ items[k].value.t = "bytes")
              => BlobLaidOut(result.binary, WriteOffset(k), items[k].value.b)

\* The values of d are strings, integers and byte arrays only.
StringsIntegersBlobs(d) ==
    \A i \in 1..Len(d) : \A j \in 1..Len(d[i].entries) :
        \/ d[i].entries[j].value.t \in {"string", "bytes"}
        \/ (d[i].entries[j].value.t = "number" /\ d[i].entries[j].value.integer)

HasBlob(d) ==
    \E i \in 1..Len(d) : \E j \in 1..Len(d[i].entries) :
        d[i].entries[j].value.t = "bytes"

\* C14: generate accepts a byte-array value of length n and emits a BLOB
\* entry (type 0x41) with span 1 + ceil(n/32), the 16-bit length n at bytes
\* 24-25 and the raw bytes in the following span-1 slots.
C14_BlobEncoding ==
    (pc # "start" /\ HasBlob(data) /\ StringsIntegersBlobs(data))
        => /\ result.error = "none"
           /\ BlobsLaidOut(StreamItems(data, 1, Len(data)))


-----------------------------------------------------------------------------
(* Claims about parse on buffers read back from a device (ParseSpec).      *)

\* The buffer parse was given.
Buf == result.binary

\* The state word of page p makes parse walk the page.
PageWalked(b, p) ==
    GetUint32(b, p * PAGE_SIZE) \notin {PAGE_STATE_EMPTY, U32(0, 0)}

\* The iterations of the entry loop of one page at used slots, from
\* entryIdx on: for each, the slot, the walk state before and after it and
\* the slot the loop goes to next.
RECURSIVE WalkPage(_, _, _, _)
WalkStep(acc, b, pageOffset, at, r) ==
    <<[at |-> at, off |-> pageOffset + 32 + at * ENTRY_SIZE,
       before |-> acc, after |-> r.acc, next |-> r.next]>>
    \o WalkPage(r.acc, b, pageOffset, r.next)

WalkAt(acc, b, pageOffset, at) ==
    IF acc.status # "ok" \/ at >= ENTRIES_PER_PAGE THEN <<>>
    ELSE WalkStep(acc, b, pageOffset, at, ParseEntry(acc, b, pageOffset, at))

WalkPage(acc, b, pageOffset, entryIdx) ==
    WalkAt(acc, b, pageOffset, SkipEmpty(b, pageOffset, entryIdx))

\* The iterations at used slots of the whole walk of b.
WalkOfPage(acc, b, p) ==
    IF acc.status = "ok" /\ PageWalked(b, p) THEN WalkPage(acc, b, p * PAGE_SIZE, 1)
    ELSE <<>>

RECURSIVE WalkPages(_, _)
WalkPages(b, n) ==
    IF n = 0 THEN <<>>
    ELSE WalkPages(b, n - 1) \o WalkOfPage(ParsePages(b, n - 1), b, n - 1)

Walk == WalkPages(Buf, Len(Buf) \div PAGE_SIZE)

\* Fields of the slot of a step, read from the buffer.
StepNamespace(s) == Buf[s.off + 1]
StepType(s) == Buf[s.off + 2]
StepSpan(s) == Buf[s.off + 3]
StepLength(s) == Buf[s.off + 25] + 256 * Buf[s.off + 26]

\* The key of the slot: the bytes of the key field before its first 0x00.
KeyOfSlot(off) ==
    TextDecode(SubSeq(Buf, off + 9,
                      off + 8 + (IF IndexOf(SubSeq(Buf, off + 9, off + 24), 0) > 0
                                 THEN IndexOf(SubSeq(Buf, off + 9, off + 24), 0)
                                 ELSE 16)))

StepKey(s) == KeyOfSlot(s.off)

IsDefinitionStep(s) == StepNamespace(s) = 0 /\ StepType(s) = 1

KnownTypes == {1, 17, 2, 18, 4, 20, 33, 65}

\* The key/value pairs of a mapping, with their namespace names.
KeyValues(m) ==
    UNION {{<<m[i].name, m[i].entries[j].key, m[i].entries[j].value>> :
                j \in 1..Len(m[i].entries)} : i \in 1..Len(m)}

\* C15: for every entry of type 0x41 parse meets, it reads the 16-bit
\* length at offset 24 of the entry and returns exactly that many raw bytes
\* taken from the following span-1 slots.
C15_BlobDecoding ==
    pc = "parsed" =>
        \A k \in 1..Len(Walk) :
            (/\ StepType(Walk[k]) = 65
             /\ StepSpan(Walk[k]) >= 1
             /\ StepLength(Walk[k]) <= ENTRY_SIZE * (StepSpan(Walk[k]) - 1)
             /\ Walk[k].off + ENTRY_SIZE * StepSpan(Walk[k]) <= Len(Buf))
            => \E t \in KeyValues(Walk[k].after.data) :
                  /\ t[2] = StepKey(Walk[k])
                  /\ t[3] = BytesValue(SubSeq(Buf, Walk[k].off + 33,
                                              Walk[k].off + 32 + StepLength(Walk[k])))

\* C16: parse terminates on every buffer, whatever its slots hold, entries
\* with span byte 0 included.
C16_ParseTerminates ==
    pc = "parsed" => parsed.status # "diverges"

\* C17: parse never raises an error on a buffer whose length is a multiple
\* of 4096, whatever its contents.
C17_ParseNeverRaises ==
    (pc = "parsed" /\ Len(Buf) % PAGE_SIZE = 0) => parsed.status # "RangeError"


\* C18: when parse meets a used slot whose type is none of 0x01, 0x11, 0x02,
\* 0x12, 0x04, 0x14, 0x21, 0x41 (and which is not a namespace definition),
\* it emits no key/value for the slot, goes on to the very next slot
\* whatever the span byte of the slot is, and raises no error.
UnknownTypesSkipped(w) ==
    \A k \in 1..Len(w) :
        (StepType(w[k]) \notin KnownTypes /\ ~IsDefinitionStep(w[k]))
        => /\ w[k].next = w[k].at + 1
           /\ w[k].after.status = "ok"
           /\ KeyValues(w[k].after.data) = KeyValues(w[k].before.data)

C18_UnknownTypeSkipped == pc = "parsed" => UnknownTypesSkipped(Walk)

\* C18 witness: parse met a slot of unknown type with span byte 3, and
\* returned the key led = 5 held by the slot right after it.
UnknownThenKey(w) ==
    \E k \in 1..(Len(w) - 1) :
        /\ StepType(w[k]) \notin KnownTypes /\ ~IsDefinitionStep(w[k])
        /\ StepSpan(w[k]) = 3
        /\ w[k + 1].at = w[k].at + 1
        /\ StepKey(w[k + 1]) = Key_led

C18_Witness ==
    /\ pc = "parsed" /\ parsed.status = "ok"
    /\ UnknownThenKey(Walk)
    /\ \E t \in KeyValues(parsed.data) :
          t[2] = Key_led /\ t[3] = IntegerValue(JsInt(5))

\* The decimal digits of a byte value, as character codes.
ByteDigits(i) ==
    IF i < 10 THEN <<48 + i>>
    ELSE IF i < 100 THEN <<48 + (i \div 10), 48 + (i % 10)>>
    ELSE <<48 + (i \div 100), 48 + ((i \div 10) % 10), 48 + (i % 10)>>

\* The namespace index of step k has a definition earlier in the walk w.
DefinedBefore(w, k) ==
    \E j \in 1..(k - 1) :
        /\ IsDefinitionStep(w[j])
        /\ Buf[w[j].off + 25] = StepNamespace(w[k])
        /\ w[j].after.status = "ok"

\* The step is a data entry whose value parse stored.
StoresValue(s) ==
    /\ ~IsDefinitionStep(s)
    /\ StepType(s) \in KnownTypes
    /\ s.after.status = "ok"

UndefinedGetSyntheticName(w) ==
    \A k \in 1..Len(w) :
        (StoresValue(w[k]) /\ ~DefinedBefore(w, k))
        => <<<<110, 115, 95>> \o ByteDigits(StepNamespace(w[k])),
             StepKey(w[k]),
             ReadValue(Buf, w[k].off, StepType(w[k]), StepSpan(w[k])).value>>
                \in KeyValues(w[k].after.data)

\* C19: when parse meets a data entry whose namespace index i has no
\* definition earlier in the walk, it still emits the entry's key and
\* value, under the synthetic namespace name "ns_<i>".
C19_MissingNamespace == pc = "parsed" => UndefinedGetSyntheticName(Walk)

UndefinedSeven(w) ==
    \E k \in 1..Len(w) :
        StoresValue(w[k]) /\ ~DefinedBefore(w, k) /\ StepNamespace(w[k]) = 7

\* C19 witness: parse returned the key led = 5 of namespace index 7, which
\* the buffer never defines, under the name ns_7.
C19_Witness ==
    /\ pc = "parsed" /\ parsed.status = "ok"
    /\ UndefinedSeven(Walk)
    /\ <<<<110, 115, 95, 55>>, Key_led, IntegerValue(JsInt(5))>>
          \in KeyValues(parsed.data)

\* The state word of page p of the buffer, as bytes.
StateBytes(p) == SubSeq(Buf, p * PAGE_SIZE + 1, p * PAGE_SIZE + 4)

\* Slot i of page p is the first used slot of the page and is a namespace
\* definition with a span byte of at least 1.
FirstSlotDefines(p, i) ==
    /\ \A j \in 1..(i - 1) : Buf[EntryOffset(p, j) + 1] = 255
    /\ Buf[EntryOffset(p, i) + 1] = 0
    /\ Buf[EntryOffset(p, i) + 2] = 1
    /\ Buf[EntryOffset(p, i) + 3] >= 1

\* C20: parse emits nothing from a page whose state word is EMPTY
\* (0xFFFFFFFF) or 0x00000000, and walks the pages whose state is ACTIVE or
\* FULL; parse of 0x6000 bytes of 0xFF returns the empty mapping.
C20_PageSkipping ==
    pc = "parsed" =>
        /\ \A p \in 0..((Len(Buf) \div PAGE_SIZE) - 1) :
              ParsePages(Buf, p).status = "ok" =>
                /\ StateBytes(p) \in {<<255, 255, 255, 255>>, <<0, 0, 0, 0>>}
                      => ParsePages(Buf, p + 1) = ParsePages(Buf, p)
                /\ StateBytes(p) \in {<<254, 255, 255, 255>>, <<252, 255, 255, 255>>}
                      => \A i \in 1..(ENTRIES_PER_PAGE - 1) :
                            FirstSlotDefines(p, i)
                            => \E n \in 1..Len(ParsePages(Buf, p + 1).data) :
                                  ParsePages(Buf, p + 1).data[n].name
                                     = KeyOfSlot(EntryOffset(p, i))
        /\ Buf = Erased(DEFAULT_PARTITION_SIZE)
              => parsed = [status |-> "ok", data |-> <<>>]


\* C20 witness: a page whose state word is 0x00000000 holds used slots, and
\* parse returned without taking anything from it.
C20_Witness ==
    /\ pc = "parsed" /\ parsed.status = "ok"
    /\ \E p \in 0..((Len(Buf) \div PAGE_SIZE) - 1) :
          /\ StateBytes(p) = <<0, 0, 0, 0>>
          /\ \E i \in 1..(ENTRIES_PER_PAGE - 1) : Buf[EntryOffset(p, i) + 1] # 255
          /\ ParsePages(Buf, p + 1) = ParsePages(Buf, p)


-----------------------------------------------------------------------------
(* Claims about the limits of generate (Spec).                             *)

\* C21: generate rejects with InvalidPartitionSize every partition size
\* that is not a positive multiple of 4096, and returns no buffer for it.
C21_InvalidPartitionSize ==
    (pc # "start" /\ (partitionSize = 0 \/ partitionSize % 4096 # 0))
        => (result.error = "InvalidPartitionSize" /\ result.binary = <<>>)


\* The length field and span byte of the k-th entry written are those of a
\* string of UTF-8 bytes u.
TrueLengthAndSpan(b, off, u) ==
    /\ b[off + 25] + 256 * b[off + 26] = Len(u) + 1
    /\ b[off + 3] = 1 + ((Len(u) + 1 + 31) \div 32)

LengthsNotWrapped(items) ==
    \A k \in 1..Len(result.writes) :
        (~items[k].def /\ items[k].value.t = "string")
            => TrueLengthAndSpan(result.binary, WriteOffset(k),
                                 TextEncode(items[k].value.s))

\* d holds a string of 65536 payload bytes or more (a string of n characters
\* has at most 4n bytes, so short strings need no encoding to be excluded).
HasHugeString(d) ==
    \E i \in 1..Len(d) : \E j \in 1..Len(d[i].entries) :
        /\ d[i].entries[j].value.t = "string"
        /\ 4 * Len(d[i].entries[j].value.s) + 1 >= 65536
        /\ Len(TextEncode(d[i].entries[j].value.s)) + 1 >= 65536

\* C22: generate fails with ValueTooLarge for every string whose payload,
\* terminator included, is 65536 bytes or more; in every returned image the
\* 16-bit length field and the span byte of each string entry equal the
\* true payload length and slot count, never a value wrapped modulo 65536
\* or 256.
C22_ValueTooLarge ==
    /\ (pc # "start" /\ HasHugeString(data)) => result.error = "ValueTooLarge"
    /\ (pc = "generated" /\ result.error = "none")
          => LengthsNotWrapped(StreamItems(data, 1, Len(data)))


\* The namespace index written for the k-th entry of the stream: byte 24 of a
\* definition, byte 0 of a data entry.
WrittenNamespaceIndex(items, k) ==
    IF items[k].def THEN result.binary[WriteOffset(k) + 25]
    ELSE result.binary[WriteOffset(k) + 1]

NamespaceIndicesInRange(items) ==
    \A k \in 1..Len(result.writes) :
        WrittenNamespaceIndex(items, k) \in 1..254

\* C23: generate fails with TooManyNamespaces when the input has more than
\* 254 namespaces to index, and every namespace index written in a returned
\* image (byte 24 of a definition, byte 0 of a data entry) is in 1..254.
C23_TooManyNamespaces ==
    /\ (pc # "start" /\ Len(NamespacesWithKeys) > 254)
          => result.error = "TooManyNamespaces"
    /\ (pc = "generated" /\ result.error = "none")
          => NamespaceIndicesInRange(StreamItems(data, 1, Len(data)))


\* A name of at most 15 ASCII bytes, none of them the terminator.
ShortAsciiName(name) ==
    Len(name) <= 15 /\ \A i \in 1..Len(name) : name[i] \in 1..127

NamesReadBack(items) ==
    \A k \in 1..Len(result.writes) :
        ShortAsciiName(items[k].key) => KeyOfSlot(WriteOffset(k)) = items[k].key

\* C26: for every key or namespace name of 0 to 15 ASCII bytes, the name
\* parse reads back from the 16-byte key field written by writeEntry equals
\* the original name, the empty name included.
C26_KeyRoundTrip ==
    (pc = "generated" /\ result.error = "none")
        => NamesReadBack(StreamItems(data, 1, Len(data)))

-----------------------------------------------------------------------------
(* Claims about calculateCRC32 (CrcSpec).                                  *)

\* The CRC-32 generator polynomial x^32 + x^26 + x^23 + x^22 + x^16 + x^12 +
\* x^11 + x^10 + x^8 + x^7 + x^5 + x^4 + x^2 + x + 1 without its leading
\* term; bit-reversed, it is the word 0xEDB88320.
PolynomialExponents == {0, 1, 2, 4, 5, 7, 8, 10, 11, 12, 16, 22, 23, 26}

\* Bit i of byte b.
BitOfByte(b, i) == (b \div (2 ^ i)) % 2

\* A polynomial over GF(2) of degree below 32 is the set of the exponents of
\* its terms.  One step of the division of the message by the generator
\* polynomial: the remainder is multiplied by x and, when the term leaving
\* it differs from the incoming message bit, the generator is subtracted.
DivisionStep(reg, bit) ==
    IF (31 \in reg) # (bit = 1)
    THEN ({e + 1 : e \in reg \ {31}} \ PolynomialExponents)
         \cup (PolynomialExponents \ {e + 1 : e \in reg \ {31}})
    ELSE {e + 1 : e \in reg \ {31}}

\* The division steps of the bits i..7 of byte b, least significant first.
RECURSIVE DivideByte(_, _, _)
DivideByte(reg, b, i) ==
    IF i > 7 \/ reg \notin SUBSET (0..31) THEN reg
    ELSE DivideByte(DivisionStep(reg, BitOfByte(b, i)), b, i + 1)

\* The remainder reg after the division steps of the bytes lo..hi.
RECURSIVE RemainderRange(_, _, _, _)
RemainderRange(reg, bytes, lo, hi) ==
    IF lo > hi \/ reg \notin SUBSET (0..31) THEN reg
    ELSE IF lo = hi THEN DivideByte(reg, bytes[lo], 0)
    ELSE RemainderRange(RemainderRange(reg, bytes, lo, (lo + hi) \div 2),
                        bytes, ((lo + hi) \div 2) + 1, hi)

\* The remainder after the first n bytes of the message, from the initial
\* value of all ones.
Remainder(bytes, n) == RemainderRange(0..31, bytes, 1, n)

\* The value of the n bits from exponent from on of the bit-reversed,
\* complemented remainder.
RECURSIVE BitsValue(_, _, _)
BitsValue(reg, from, n) ==
    IF n = 0 THEN 0
    ELSE (IF (31 - from) \in reg THEN 0 ELSE 1) + 2 * BitsValue(reg, from + 1, n - 1)

\* The remainder bit-reversed and complemented, as a 32-bit word.
ReflectedComplement(reg) == U32(BitsValue(reg, 16, 16), BitsValue(reg, 0, 16))

StandardCrc32(bytes) == ReflectedComplement(Remainder(bytes, Len(bytes)))

\* C24: for every byte sequence calculateCRC32 returns the standard CRC-32
\* (reflected polynomial 0xEDB88320, initial value 0xFFFFFFFF, final XOR
\* 0xFFFFFFFF) as an unsigned 32-bit value, 0xCBF43926 for "123456789".
C24_StandardCrc32 ==
    crcResult # <<>> =>
        /\ crcResult[1] = StandardCrc32(crcData)
        /\ crcResult[1].hi \in 0..65535
        /\ crcResult[1].lo \in 0..65535
        /\ crcData = Ascii123456789 => crcResult[1] = U32(52212, 14630)

C24_Witness ==
    /\ crcResult = <<U32(52212, 14630)>>
    /\ crcData = Ascii123456789


-----------------------------------------------------------------------------
(* Claims about DeviceConnection (ConnectSpec).                            *)

Rejected(c) == calls[c].pc \in {"rejected", "done"} /\ calls[c].error # "none"

C29_ConnectedMeansOwnObjects ==
    isConnected =>
        /\ transport # <<>>
        /\ espStub # <<>>
        /\ transport = <<connectedBy>>
        /\ espStub = <<connectedBy>>


-----------------------------------------------------------------------------
(* Claims about flashing (FlashSpec).                                      *)

\* The writeFlash calls of the flash() call in progress or last finished.
FlashWrites ==
    SelectSeq(writeFlashOps, LAMBDA op : op.by = "flash")

\* flash() has passed generateAndAddNVS and the writeFlash call after it.
PastNvs == flashCall.pc \in {"writing", "returned", "threw", "done"} /\ flashCall.writes > 0

\* What flash() must have done given r, the outcome of generate on the
\* project's configuration.
NvsFailureTolerated(r) ==
    /\ flashCall.nvs = "threw" =>
          /\ flashCall.warnings > 0
          /\ flashCall.error # "nvs"
          /\ flashCall.fileArray = <<[data |-> flashCall.firmware, address |-> 0]>>
          /\ flashCall.pc = "nvs_returned" => flashCall.writes = 0
          /\ PastNvs =>
                /\ flashCall.writes = 1
                /\ FlashWrites[Len(FlashWrites)].fileArray
                      = <<[data |-> flashCall.firmware, address |-> 0]>>
                /\ FlashWrites[Len(FlashWrites)].status = "ok"
                      => flashCall.result = "true"
                /\ flashCall.result = "rejected" => flashCall.error = "write"
          /\ generatorLoaded => r.error # "none"
    /\ flashCall.nvs = "added" =>
          /\ generatorLoaded
          /\ r.error = "none"
          /\ flashCall.fileArray
                = <<[data |-> flashCall.firmware, address |-> 0],
                    [data |-> r.binary, address |-> 9 * PAGE_SIZE]>>
          /\ PastNvs => FlashWrites[Len(FlashWrites)].fileArray = flashCall.fileArray

\* C27: when NVS generation throws inside generateAndAddNVS, the error is
\* logged as a warning and not propagated: flash calls espStub.writeFlash
\* exactly once, with a file array holding only the firmware at address 0,
\* and resolves true if that write succeeds.  When generation succeeds the
\* file array holds the firmware at 0 followed by the NVS image at the
\* project's nvsPartition offset (0x9000 here).
C27_NvsFailureTolerated ==
    flashCall.nvs \in {"threw", "added"} =>
        NvsFailureTolerated(generate(NvsData(selectedProject, config), PAGE_SIZE))

\* flash resolved true after a generation that threw.
C27_Witness ==
    /\ flashCall.nvs = "threw"
    /\ generatorLoaded
    /\ flashCall.result = "true"
    /\ flashCall.writes = 1

\* The writeFlash calls in progress.
WritesInProgress == {i \in 1..Len(writeFlashOps) : writeFlashOps[i].status = "running"}

\* C30: for every sequence of clicks on Flash Firmware and Write Config,
\* each possible only while its button is enabled, at most one
\* espStub.writeFlash call is in progress at any time.
C30_OneWriteAtATime == Cardinality(WritesInProgress) <= 1

=============================================================================
